---- MODULE Spec2Model ----
(***************************************************************************)
(* Model of httpcloak's unified transport (package transport): the         *)
(* Transport facade that selects among the HTTP/1.1, HTTP/2 and HTTP/3      *)
(* transports per request, its learned protocol-support cache, its runtime  *)
(* reconfiguration, and the TransportError taxonomy it returns.             *)
(*                                                                         *)
(* Strings are TLA+ strings; substring search and lower-casing are done     *)
(* character by character as strings.Contains / strings.ToLower do.         *)
(***************************************************************************)
EXTENDS Integers, Sequences, FiniteSets, TLC

VARIABLES
    protocol,           \* Transport.protocol (forced protocol or auto)
    proxy,              \* Transport.proxy (*ProxyConfig, NilProxy when nil)
    preset,             \* Transport.preset (*fingerprint.Preset)
    protocolSupport,    \* Transport.protocolSupport: host -> learned protocol
    h1Transport,        \* Transport.h1Transport (current instance)
    h2Transport,        \* Transport.h2Transport (current instance)
    h3Transport,        \* Transport.h3Transport (current instance)
    tasks,              \* per goroutine, the Do call it is in or has returned from
    learnedH1,          \* history: hosts recorded as h1 since the last cache reset
    doCount,            \* number of Do calls started so far
    reconfCount,        \* number of reconfiguration calls made so far
    insecureSkipVerify, \* Transport.insecureSkipVerify
    timeout,            \* Transport.timeout, in seconds
    timers,             \* per goroutine, the time its Do call has taken
    closed,             \* the transport instances that have been closed
    reconf,             \* the SetProxy/SetPreset call in progress, if any
    issued,             \* per goroutine, the instance its last round trip went to
    pool,               \* the connections of the HTTP/2 and HTTP/3 transports
    probe,              \* per goroutine, the doHTTPn call it measures
    given,              \* the error handed to an error constructor
    built,              \* the error the constructor returned
    slots,              \* the connection pool: per key, its pool slot
    acquirers,          \* per caller of acquire, where it is and what it got
    dialsMade,          \* number of dials started so far
    acquireCount,       \* number of acquire calls made so far
    cachedClientHelloSpecPSK, \* HTTP3Transport: whether the PSK spec is non-nil
    sessions,           \* the TLS session cache: per host, the cached session
    now,                \* the time, in hours
    dialed,             \* the last dial: its host and ClientHello variant
    resumptionTest,     \* the run of cmd/test_session_resumption
    sessionKeys,        \* the session-cache keys formatted so far
    tlsOnly,            \* config.TLSOnly of the protocol transports
    reqHeaders,         \* Request.Headers
    wire,               \* the headers of the request that is sent
    rerun,              \* the headers sent when the same request is made again
    pins,               \* CertPinner.pins
    verified,           \* the last CertPinner.Verify call on these pins
    body,               \* the body a server sends, before it is encoded
    encoding,           \* the Content-Encoding of the response
    decoded,            \* what decompress returned for the encoded body
    streamed,           \* what the stream decompressor yielded for it
    hooks,              \* the *Hooks value: nil, or its two hook lists
    hookRun,            \* the last RunPreRequest/RunPostResponse call on it
    wrapOf,             \* the error handed to the first of a row of WrapError calls
    wrapped,            \* the WrapError calls of the row, each on the result before
    greaseVersions      \* the GREASE versions generated so far

\* What the time-keeping of a Do call adds to the state
timeVars == <<timers>>

\* What a reconfiguration call running step by step adds to the state
raceVars == <<reconf, issued>>

\* What the connection pools and the timing of a response add to the state
connVars == <<pool, probe>>

\* What building an error from a cause adds to the state
errVars == <<given, built>>

\* The connection pool and the callers of acquire
poolVars == <<slots, acquirers, dialsMade, acquireCount>>

\* The TLS session cache and the ClientHello variant of a dial
pskVars == <<cachedClientHelloSpecPSK, sessions, now, dialed, resumptionTest>>

\* The headers of a request, from the caller to the wire
hdrVars == <<tlsOnly, reqHeaders, wire, rerun>>

\* The certificate pinner
pinVars == <<pins, verified>>

\* The decompression of a response body
codecVars == <<body, encoding, decoded, streamed>>

\* The request hooks
hookVars == <<hooks, hookRun>>

\* A row of WrapError calls
wrapVars == <<wrapOf, wrapped>>

\* The state of the package's parts that work apart from a Transport
libVars == <<errVars, poolVars, pskVars, sessionKeys, hdrVars, pinVars,
             codecVars, hookVars, wrapVars, greaseVersions>>

\* The Transport facade with its transports, calls and connections
facadeVars == <<protocol, proxy, preset, protocolSupport, h1Transport,
                h2Transport, h3Transport, tasks, learnedH1, doCount,
                reconfCount, insecureSkipVerify, timeout, timers, closed,
                reconf, issued, pool, probe>>

vars == <<protocol, proxy, preset, protocolSupport,
          h1Transport, h2Transport, h3Transport, tasks, learnedH1, doCount,
          reconfCount, insecureSkipVerify, timeout, timeVars, closed, raceVars,
          connVars, libVars>>

-----------------------------------------------------------------------------
(* Bounds of the model *)

MaxDo == 2
MaxReconf == 1
MaxAutoDo == 3
MaxTimedDo == 2
MaxConfig == 3
MaxRaceReconf == 1
MaxConnDo == 3
MaxDrops == 1
MaxAcquire == 4
MaxDials == 2
MaxHours == 32
MaxKeys == 2
MaxPins == 2
MaxBody == 2
MaxHooks == 3
MaxWraps == 3
MaxGrease == 2

\* The goroutines that call Do concurrently on the one Transport
Goroutines == {"g1", "g2"}

-----------------------------------------------------------------------------
(* Protocol constants (transport.go, type Protocol) *)

ProtocolAuto == "auto"
ProtocolHTTP1 == "h1"
ProtocolHTTP2 == "h2"
ProtocolHTTP3 == "h3"

Protocols == {ProtocolAuto, ProtocolHTTP1, ProtocolHTTP2, ProtocolHTTP3}

\* A host that has no entry in the protocolSupport map
Unknown == "unknown"

-----------------------------------------------------------------------------
(* strings.ToLower and strings.Contains *)

LowerChar(c) ==
    CASE c = "A" -> "a" [] c = "B" -> "b" [] c = "C" -> "c" [] c = "D" -> "d"
      [] c = "E" -> "e" [] c = "F" -> "f" [] c = "G" -> "g" [] c = "H" -> "h"
      [] c = "I" -> "i" [] c = "J" -> "j" [] c = "K" -> "k" [] c = "L" -> "l"
      [] c = "M" -> "m" [] c = "N" -> "n" [] c = "O" -> "o" [] c = "P" -> "p"
      [] c = "Q" -> "q" [] c = "R" -> "r" [] c = "S" -> "s" [] c = "T" -> "t"
      [] c = "U" -> "u" [] c = "V" -> "v" [] c = "W" -> "w" [] c = "X" -> "x"
      [] c = "Y" -> "y" [] c = "Z" -> "z" [] OTHER -> c

RECURSIVE ToLower(_)
ToLower(s) ==
    IF Len(s) = 0 THEN ""
    ELSE LowerChar(SubSeq(s, 1, 1)) \o ToLower(SubSeq(s, 2, Len(s)))

Contains(s, sub) ==
    \E i \in 1..(Len(s) - Len(sub) + 1) : SubSeq(s, i, i + Len(sub) - 1) = sub

-----------------------------------------------------------------------------
(* Errors (errors.go) *)

ErrConnection == "connection error"
ErrTLS == "TLS error"
ErrDNS == "DNS error"
ErrTimeout == "timeout error"
ErrProxy == "proxy error"
ErrProtocol == "protocol error"
ErrRequest == "request error"
ErrResponse == "response error"
ErrClosed == "transport closed"

NilErr == [kind |-> "nil"]

\* An error value that is not a *TransportError: its message, and what its
\* dynamic type answers to net.Error's Timeout()/Temporary() and to the
\* *net.DNSError type assertion.
PlainError(msg, isTimeout, isTemporary, isDNS) ==
    [kind |-> "plain", msg |-> msg, timeout |-> isTimeout,
     temporary |-> isTemporary, dns |-> isDNS]

\* A sentinel created by errors.New
Sentinel(msg) == PlainError(msg, FALSE, FALSE, FALSE)

\* fmt.Errorf(prefix + ": %w", inner): an error that wraps another
Errorf(prefix, inner) == [kind |-> "wrap", prefix |-> prefix, inner |-> inner]

TransportError(op, host, port, proto, cause, category, retryable) ==
    [kind |-> "te", Op |-> op, Host |-> host, Port |-> port, Protocol |-> proto,
     Cause |-> cause, Category |-> category, Retryable |-> retryable]

RECURSIVE ErrorString(_)
ErrorString(e) ==
    IF e.kind = "plain" THEN e.msg
    ELSE IF e.kind = "wrap" THEN e.prefix \o ": " \o ErrorString(e.inner)
    ELSE e.Op
         \o (IF e.Host # ""
             THEN " " \o e.Host
                  \o (IF e.Port # "" /\ e.Port # "443" /\ e.Port # "80"
                      THEN ":" \o e.Port ELSE "")
             ELSE "")
         \o (IF e.Protocol # "" THEN " [" \o e.Protocol \o "]" ELSE "")
         \o (IF e.Cause.kind # "nil" THEN ": " \o ErrorString(e.Cause) ELSE "")

IsNetTimeout(err) == err.kind = "plain" /\ err.timeout
IsNetTemporary(err) == err.kind = "plain" /\ err.temporary
IsDNSErrorType(err) == err.kind = "plain" /\ err.dns

\* The nil category
NoCategory == ""

Categories ==
    {ErrConnection, ErrTLS, ErrDNS, ErrTimeout, ErrProxy, ErrProtocol,
     ErrRequest, ErrResponse, ErrClosed}

\* Variant of categorizeError: an error that matches no pattern gets no category
categorizeError_NoDefault(err) ==
    IF err.kind = "nil" THEN NoCategory ELSE
    LET errStr == ToLower(ErrorString(err)) IN
    IF IsNetTimeout(err) THEN ErrTimeout
    ELSE IF IsDNSErrorType(err) THEN ErrDNS
    ELSE IF Contains(errStr, "tls") \/ Contains(errStr, "certificate")
            \/ Contains(errStr, "x509") \/ Contains(errStr, "handshake")
         THEN ErrTLS
    ELSE IF Contains(errStr, "connection refused")
            \/ Contains(errStr, "connection reset")
            \/ Contains(errStr, "broken pipe")
            \/ Contains(errStr, "no route to host")
            \/ Contains(errStr, "network is unreachable")
         THEN ErrConnection
    ELSE IF Contains(errStr, "proxy") THEN ErrProxy
    ELSE IF Contains(errStr, "protocol") \/ Contains(errStr, "http2")
            \/ Contains(errStr, "alpn")
         THEN ErrProtocol
    ELSE NoCategory

categorizeError(err) ==
    IF err.kind = "nil" THEN NoCategory ELSE
    LET errStr == ToLower(ErrorString(err)) IN
    IF IsNetTimeout(err) THEN ErrTimeout
    ELSE IF IsDNSErrorType(err) THEN ErrDNS
    ELSE IF Contains(errStr, "tls") \/ Contains(errStr, "certificate")
            \/ Contains(errStr, "x509") \/ Contains(errStr, "handshake")
         THEN ErrTLS
    ELSE IF Contains(errStr, "connection refused")
            \/ Contains(errStr, "connection reset")
            \/ Contains(errStr, "broken pipe")
            \/ Contains(errStr, "no route to host")
            \/ Contains(errStr, "network is unreachable")
         THEN ErrConnection
    ELSE IF Contains(errStr, "proxy") THEN ErrProxy
    ELSE IF Contains(errStr, "protocol") \/ Contains(errStr, "http2")
            \/ Contains(errStr, "alpn")
         THEN ErrProtocol
    ELSE ErrConnection

isRetryableError(err) ==
    IF err.kind = "nil" THEN FALSE
    ELSE IF IsNetTimeout(err) THEN TRUE
    ELSE IF IsNetTemporary(err) THEN TRUE
    ELSE LET errStr == ToLower(ErrorString(err)) IN
         IF Contains(errStr, "connection reset")
            \/ Contains(errStr, "connection refused")
            \/ Contains(errStr, "broken pipe")
         THEN TRUE
         ELSE IF IsDNSErrorType(err) THEN TRUE
         ELSE Contains(errStr, "eof")

NewConnectionError(op, host, port, proto, cause) ==
    TransportError(op, host, port, proto, cause, ErrConnection,
                   isRetryableError(cause))

NewTLSError(op, host, port, proto, cause) ==
    TransportError(op, host, port, proto, cause, ErrTLS, FALSE)

NewDNSError(host, cause) ==
    TransportError("dns_resolve", host, "", "", cause, ErrDNS, TRUE)

NewTimeoutError(op, host, port, proto, cause) ==
    TransportError(op, host, port, proto, cause, ErrTimeout, TRUE)

NewProxyError(op, host, port, cause) ==
    TransportError(op, host, port, "", cause, ErrProxy, FALSE)

NewProtocolError(host, port, proto, cause) ==
    TransportError("protocol_negotiation", host, port, proto, cause,
                   ErrProtocol, FALSE)

NewRequestError(op, host, port, proto, cause) ==
    TransportError(op, host, port, proto, cause, ErrRequest,
                   isRetryableError(cause))

\* errors.As(err, &te) with te a *TransportError: the error is one, or the
\* chain that Unwrap gives from it holds one
RECURSIVE AsTransportError(_)
AsTransportError(err) ==
    CASE err.kind = "te" -> TRUE
      [] err.kind = "wrap" -> AsTransportError(err.inner)
      [] OTHER -> FALSE

\* Variant of WrapError: an error that holds a TransportError is wrapped again
WrapError_Always(op, host, port, proto, cause) ==
    IF cause.kind = "nil" THEN NilErr
    ELSE TransportError(op, host, port, proto, cause,
                        categorizeError(cause), isRetryableError(cause))

WrapError(op, host, port, proto, cause) ==
    IF cause.kind = "nil" THEN NilErr
    ELSE IF AsTransportError(cause) THEN cause
    ELSE TransportError(op, host, port, proto, cause,
                        categorizeError(cause), isRetryableError(cause))

isProtocolError(err) ==
    IF err.kind = "nil" THEN FALSE
    ELSE LET errStr == ToLower(ErrorString(err)) IN
         Contains(errStr, "protocol") \/ Contains(errStr, "alpn")
         \/ Contains(errStr, "http2") \/ Contains(errStr, "does not support")

-----------------------------------------------------------------------------
(* Requests, presets, proxies *)

\* What url.Parse yields for Request.URL: scheme, Hostname() and Port()
URL(scheme, host, port) == [scheme |-> scheme, host |-> host, port |-> port]

NoReq == URL("", "", "")

RequestURLs ==
    { URL("https", "a.test", ""),
      URL("http", "a.test", "") }

Hosts == {u.host : u \in RequestURLs}

\* The same hostname on another port, and a scheme that is neither http nor
\* https
AllURLs ==
    RequestURLs \cup { URL("https", "a.test", "8443"), URL("ftp", "a.test", "") }

\* A Request.URL that url.Parse rejects, with the error it returns
BadURL ==
    [scheme |-> "", host |-> "", port |-> "",
     parseErr |-> [kind |-> "plain",
                   msg |-> "parse \"https://a.test:x\": invalid port \":x\" after host",
                   timeout |-> FALSE, temporary |-> FALSE, dns |-> FALSE]]

ParseFails(u) == "parseErr" \in DOMAIN u

\* fingerprint.Get(presetName): the fields of the preset the facade reads
Preset(name, supportHTTP3) == [Name |-> name, SupportHTTP3 |-> supportHTTP3]

PresetNames == {"chrome-145", "chrome-133"}

FingerprintGet(name) ==
    IF name = "chrome-145" THEN Preset(name, TRUE) ELSE Preset(name, FALSE)

NilProxy == [nil |-> TRUE, URL |-> ""]

ProxyConfig(url) == [nil |-> FALSE, URL |-> url]

ProxyConfigs == {NilProxy, ProxyConfig(""), ProxyConfig("http://proxy:8080")}

\* The protocol transports, as far as the facade configures them
NewHTTP1TransportWithProxy(pr, px) ==
    [gen |-> 0, preset |-> pr.Name, proxy |-> px, insecureSkipVerify |-> FALSE]

NewHTTP2TransportWithProxy(pr, px) ==
    [gen |-> 0, preset |-> pr.Name, proxy |-> px, insecureSkipVerify |-> FALSE]

NewHTTP3Transport(pr) ==
    [gen |-> 0, preset |-> pr.Name, proxy |-> NilProxy,
     insecureSkipVerify |-> FALSE]

\* The instance that takes the place of old: a new allocation, told apart from
\* every earlier one by its generation
Replacing(old, new) == [new EXCEPT !.gen = old.gen + 1]

-----------------------------------------------------------------------------
(* What a round trip on a protocol transport can end in *)

\* golang.org/x/net/http2: the server did not negotiate h2
ErrUnexpectedALPN ==
    Sentinel("http2: unexpected ALPN protocol http/1.1; want h2")

\* context.DeadlineExceeded: Timeout() and Temporary() are true
ErrDeadlineExceeded ==
    PlainError("context deadline exceeded", TRUE, TRUE, FALSE)

\* crypto/tls alert: a TLS failure whose text names the protocol version
ErrTLSProtocolVersion ==
    Sentinel("remote error: tls: protocol version not supported")

RoundTripErrors == {ErrUnexpectedALPN, ErrDeadlineExceeded, ErrTLSProtocolVersion}

OkOutcome == [stage |-> "ok", cause |-> NilErr]

Outcomes ==
    {OkOutcome} \cup {[stage |-> "roundtrip", cause |-> c] : c \in RoundTripErrors}

\* io.ErrUnexpectedEOF: matches none of categorizeError's patterns
ErrUnexpectedEOF == Sentinel("unexpected EOF")

\* The steps of doHTTPn after which it can fail, with an error of each: building
\* the request, the round trip (also with an error that the protocol transport
\* has wrapped already), reading the body, decompressing it
AllOutcomes ==
    Outcomes \cup
    { [stage |-> "roundtrip", cause |-> ErrUnexpectedEOF],
      [stage |-> "roundtrip",
       cause |-> NewProtocolError("a.test", "443", "h2", ErrUnexpectedALPN)],
      [stage |-> "create_request",
       cause |-> Sentinel("net/http: invalid method \"G T\"")],
      [stage |-> "read_body", cause |-> ErrUnexpectedEOF],
      [stage |-> "decompress", cause |-> Sentinel("gzip: invalid header")] }

NoResp == [Protocol |-> "", FinalURL |-> NoReq]

Ok(resp) == [ok |-> TRUE, resp |-> resp, err |-> NilErr]
Fail(err) == [ok |-> FALSE, resp |-> NoResp, err |-> err]

SchemeCheckError(proto) ==
    NewProtocolError("", "", proto,
        TransportError("scheme_check", "", "", "", Sentinel(ErrProtocol),
                       ErrProtocol, FALSE))

\* doHTTP1: port defaults by scheme; a round-trip error is wrapped
doHTTP1(u, o) ==
    LET port == IF u.port # "" THEN u.port
                ELSE IF u.scheme = "https" THEN "443" ELSE "80"
    IN IF o.stage = "ok"
       THEN Ok([Protocol |-> "h1", FinalURL |-> u])
       ELSE IF o.stage = "roundtrip"
            THEN Fail(WrapError("roundtrip", u.host, port, "h1", o.cause))
            ELSE Fail(NewRequestError(o.stage, u.host, port, "h1", o.cause))

\* doHTTP2: https only
doHTTP2(u, o) ==
    LET port == IF u.port # "" THEN u.port ELSE "443"
    IN IF u.scheme # "https" THEN Fail(SchemeCheckError("h2"))
       ELSE IF o.stage = "ok"
       THEN Ok([Protocol |-> "h2", FinalURL |-> u])
       ELSE IF o.stage = "roundtrip"
            THEN Fail(WrapError("roundtrip", u.host, port, "h2", o.cause))
            ELSE Fail(NewRequestError(o.stage, u.host, port, "h2", o.cause))

\* doHTTP3: https only
doHTTP3(u, o) ==
    LET port == IF u.port # "" THEN u.port ELSE "443"
    IN IF u.scheme # "https" THEN Fail(SchemeCheckError("h3"))
       ELSE IF o.stage = "ok"
       THEN Ok([Protocol |-> "h3", FinalURL |-> u])
       ELSE IF o.stage = "roundtrip"
            THEN Fail(WrapError("roundtrip", u.host, port, "h3", o.cause))
            ELSE Fail(NewRequestError(o.stage, u.host, port, "h3", o.cause))

doHTTP(proto, u, o) ==
    CASE proto = ProtocolHTTP1 -> doHTTP1(u, o)
      [] proto = ProtocolHTTP2 -> doHTTP2(u, o)
      [] proto = ProtocolHTTP3 -> doHTTP3(u, o)

extractHost(u) == u.host

-----------------------------------------------------------------------------
(* Transport.Do and doAuto, as run by one goroutine *)

\* A goroutine's Do call is a record.  pc: "idle" before its first call,
\* "inflight" while a doHTTPn call is running, "done" once Do has returned.
\* path: the branch of Do/doAuto handling the request.  known: what doAuto
\* read from protocolSupport.  calls: the protocols of the doHTTPn calls made
\* so far; a call is made only when the one before it has returned, and the
\* last one is running while pc is "inflight".  h2err: the error of the
\* doHTTP2 call, once it has failed.  resp, err: what Do returned.
\* seen (history): whether a proxy was configured at the call, and whether the
\* host had been recorded as h1 before it.
NoSeen == [proxied |-> FALSE, learnedH1 |-> FALSE]

IdleTask ==
    [pc |-> "idle", req |-> NoReq, path |-> "", known |-> "", calls |-> <<>>,
     h2err |-> NilErr, resp |-> NoResp, err |-> NilErr, seen |-> NoSeen]

Cur(tk) == tk.calls[Len(tk.calls)]

\* Variant of DoBranch: the proxy test made before the scheme test
DoBranch_ProxyBeforeScheme(u, px, proto) ==
    IF ~px.nil /\ px.URL # "" THEN "proxy"
    ELSE IF u.scheme = "http" THEN "plain"
    ELSE IF proto = ProtocolAuto THEN "auto"
    ELSE "forced"

\* Variant of DoBranch: the protocol switch made before the proxy test
DoBranch_SwitchBeforeProxy(u, px, proto) ==
    IF u.scheme = "http" THEN "plain"
    ELSE IF proto # ProtocolAuto THEN "forced"
    ELSE IF ~px.nil /\ px.URL # "" THEN "proxy"
    ELSE "auto"

\* Do: the branch taken for a parsed URL
DoBranch(u, px, proto) ==
    IF u.scheme = "http" THEN "plain"
    ELSE IF ~px.nil /\ px.URL # "" THEN "proxy"
    ELSE IF proto = ProtocolAuto THEN "auto"
    ELSE "forced"

\* doAuto: the first protocol tried, from the cached protocol and the preset
doAutoFirst(kn, pr) ==
    IF kn # Unknown THEN kn
    ELSE IF pr.SupportHTTP3 THEN ProtocolHTTP3
    ELSE ProtocolHTTP2

\* Do up to its first doHTTPn call, or to its return if the URL does not parse
DoStart(u, px, proto, support, pr) ==
    IF ParseFails(u)
    THEN [pc |-> "done", req |-> u, path |-> "parse", known |-> "",
          calls |-> <<>>, h2err |-> NilErr, resp |-> NoResp,
          err |-> NewRequestError("parse_url", "", "", "", u.parseErr),
          seen |-> NoSeen]
    ELSE
    LET br == DoBranch(u, px, proto)
        kn == IF br = "auto" THEN support[extractHost(u)] ELSE ""
    IN [pc |-> "inflight", req |-> u,
        path |-> IF br # "auto" THEN br
                 ELSE IF kn # Unknown THEN "known" ELSE "unknown",
        known |-> kn,
        calls |-> << CASE br = "plain" -> ProtocolHTTP1
                       [] br = "proxy" -> ProtocolHTTP2
                       [] br = "forced" -> proto
                       [] br = "auto" -> doAutoFirst(kn, pr) >>,
        h2err |-> NilErr, resp |-> NoResp, err |-> NilErr, seen |-> NoSeen]

\* The error of a failed doHTTP2 call is kept for the caller's inspection
NoteH2(tk, r) ==
    IF Cur(tk) = ProtocolHTTP2 /\ ~r.ok THEN [tk EXCEPT !.h2err = r.err] ELSE tk

\* The running call returned r and Do returns it to the caller
Return(tk, r) ==
    [NoteH2(tk, r) EXCEPT !.pc = "done", !.resp = r.resp, !.err = r.err]

\* The running call returned r, which is dropped, and doHTTPn(next) is called
Try(tk, r, next) ==
    [NoteH2(tk, r) EXCEPT !.calls = Append(@, next)]

Step(tk, support) == [task |-> tk, support |-> support]

\* Do, plaintext branch and forced-protocol switch: the result is returned
DoDirect(tk, r, support) == Step(Return(tk, r), support)

\* Variant of DoProxy: HTTP/1.1 is tried only after an HTTP/2 protocol error
DoProxy_ProtocolErrorOnly(tk, r, support) ==
    IF Cur(tk) = ProtocolHTTP2 /\ ~r.ok /\ r.protocolError
    THEN Step(Try(tk, r, ProtocolHTTP1), support)
    ELSE Step(Return(tk, r), support)

\* Do, proxy branch: HTTP/2, then HTTP/1.1 if HTTP/2 failed
DoProxy(tk, r, support) ==
    IF Cur(tk) = ProtocolHTTP2 /\ ~r.ok
    THEN Step(Try(tk, r, ProtocolHTTP1), support)
    ELSE Step(Return(tk, r), support)

\* Variant of doAutoKnown: HTTP/1.1 is tried only after an HTTP/2 protocol error
doAutoKnown_ProtocolErrorOnly(tk, r, support) ==
    IF Cur(tk) = ProtocolHTTP2 /\ ~r.ok /\ r.protocolError
    THEN Step(Try(tk, r, ProtocolHTTP1), support)
    ELSE Step(Return(tk, r), support)

\* doAuto, host known: h3 and h1 return; h2 falls back to h1
doAutoKnown(tk, r, support) ==
    IF Cur(tk) = ProtocolHTTP2 /\ ~r.ok
    THEN Step(Try(tk, r, ProtocolHTTP1), support)
    ELSE Step(Return(tk, r), support)

\* Variant of doAutoUnknown: the protocol is recorded when its attempt ends,
\* whether or not it produced a response
doAutoUnknown_CommitOnAttempt(tk, r, support) ==
    LET host == extractHost(tk.req) IN
    CASE Cur(tk) = ProtocolHTTP3 ->
            IF r.ok
            THEN Step(Return(tk, r), [support EXCEPT ![host] = ProtocolHTTP3])
            ELSE Step(Try(tk, r, ProtocolHTTP2),
                      [support EXCEPT ![host] = ProtocolHTTP3])
      [] Cur(tk) = ProtocolHTTP2 ->
            IF r.ok
            THEN Step(Return(tk, r), [support EXCEPT ![host] = ProtocolHTTP2])
            ELSE Step(Try(tk, r, ProtocolHTTP1),
                      [support EXCEPT ![host] = ProtocolHTTP2])
      [] Cur(tk) = ProtocolHTTP1 ->
            IF r.ok
            THEN Step(Return(tk, r), [support EXCEPT ![host] = ProtocolHTTP1])
            ELSE Step(Return(tk, r), support)

\* doAuto, host unknown: H3 (if the preset supports it), H2, H1; the protocol
\* that answers is recorded, and h1 is recorded on an H2 protocol error
doAutoUnknown(tk, r, support) ==
    LET host == extractHost(tk.req) IN
    CASE Cur(tk) = ProtocolHTTP3 ->
            IF r.ok
            THEN Step(Return(tk, r), [support EXCEPT ![host] = ProtocolHTTP3])
            ELSE Step(Try(tk, r, ProtocolHTTP2), support)
      [] Cur(tk) = ProtocolHTTP2 ->
            IF r.ok
            THEN Step(Return(tk, r), [support EXCEPT ![host] = ProtocolHTTP2])
            ELSE Step(Try(tk, r, ProtocolHTTP1),
                      IF r.protocolError
                      THEN [support EXCEPT ![host] = ProtocolHTTP1]
                      ELSE support)
      [] Cur(tk) = ProtocolHTTP1 ->
            IF r.ok
            THEN Step(Return(tk, r), [support EXCEPT ![host] = ProtocolHTTP1])
            ELSE Step(Return(tk, r), support)

\* What Do does when its running doHTTPn call returns r
DoContinue(tk, r, support) ==
    CASE tk.path = "plain" -> DoDirect(tk, r, support)
      [] tk.path = "forced" -> DoDirect(tk, r, support)
      [] tk.path = "proxy" -> DoProxy(tk, r, support)
      [] tk.path = "known" -> doAutoKnown(tk, r, support)
      [] tk.path = "unknown" -> doAutoUnknown(tk, r, support)

\* Every doHTTPn result over the requests and round-trip outcomes of the
\* model, with isProtocolError of its error, computed once
AttemptResult ==
    [p \in Protocols \ {ProtocolAuto}, u \in AllURLs, o \in AllOutcomes |->
        LET r == doHTTP(p, u, o)
        IN [ok |-> r.ok, resp |-> r.resp, err |-> r.err,
            protocolError |-> isProtocolError(r.err)]]

-----------------------------------------------------------------------------
(* The state machine *)

\* NewTransportWithProxy: timeout: 30 * time.Second
DefaultTimeout == 30

\* Request.Timeout values, in seconds (0: not set), and the steps in which the
\* model lets time pass
RequestTimeouts == {0, 15}

TimeSteps == {15}

\* Values passed to SetTimeout
Timeouts == {DefaultTimeout, 15}

NoTimer == [limit |-> 0, spent |-> 0, total |-> 0]

\* A transport instance: which transport it is, and which allocation of it
Instance(kind, tr) == [kind |-> kind, gen |-> tr.gen]

\* No SetProxy/SetPreset call is in progress.  Of a call in progress: the
\* transports it still has to close, then those it still has to re-create.
NoReconf == [op |-> "", close |-> <<>>, create |-> <<>>]

NoIssue == [kind |-> "", gen |-> 0, onClosed |-> FALSE]

\* The hosts of the https requests whose timing is followed, all on port 443
ConnHosts == {"a.test", "b.test"}

\* HTTP2Transport: per host:port, the use count of its pooled connection (0: no
\* connection).  HTTP3Transport: the hosts with a QUIC connection, and the
\* number of dials made so far.  drops: connections closed so far.
NoConnections ==
    [h2 |-> [h \in ConnHosts |-> 0], h3 |-> {}, dials |-> 0, drops |-> 0]

\* protocol.Timing, in hundredths of a millisecond
NoTiming == [DNSLookup |-> 0, TCPConnect |-> 0, TLSHandshake |-> 0]

\* A doHTTP2/doHTTP3 call: pc is "idle", "counted" once the count before the
\* request is read, "answered" once the round trip has returned, "done" once
\* the response is built.  existed (history): the host had a connection when
\* the call started.  formed (history): the round trip dialed a new connection.
NoProbe ==
    [pc |-> "idle", proto |-> "", host |-> "", before |-> 0,
     existed |-> FALSE, formed |-> FALSE, firstByte |-> 0, timing |-> NoTiming]

\* timing.FirstByte values, in milliseconds
FirstBytes == {10, 20}

\* The callers of acquire
Acquirers == {"c1", "c2", "c3"}

\* The pool is not in use
PoolUnused ==
    /\ slots = << >>
    /\ acquirers = << >>
    /\ dialsMade = 0
    /\ acquireCount = 0

\* No error constructor has been called
NoErrorBuilt == given = NilErr /\ built = NilErr

\* No TLS dial is made
PSKUnused ==
    /\ cachedClientHelloSpecPSK = FALSE
    /\ sessions = << >>
    /\ now = 0
    /\ dialed = << >>
    /\ resumptionTest = << >>

\* No request is built
HeadersUnused ==
    tlsOnly = FALSE /\ reqHeaders = << >> /\ wire = << >> /\ rerun = << >>

\* No CertPinner is constructed
PinnerUnused == pins = << >> /\ verified = << >>

\* No body is decompressed
CodecUnused ==
    body = << >> /\ encoding = "" /\ decoded = << >> /\ streamed = << >>

\* No Hooks value is made
HooksUnused == hooks = << >> /\ hookRun = << >>

\* No row of WrapError calls is made
WrapUnused == wrapOf = NilErr /\ wrapped = << >>

\* Every part but the named one is left alone
LibUnusedBut(part) ==
    /\ IF part = "err" THEN TRUE ELSE NoErrorBuilt
    /\ IF part = "pool" THEN TRUE ELSE PoolUnused
    /\ IF part = "psk" THEN TRUE ELSE PSKUnused
    /\ IF part = "keys" THEN TRUE ELSE sessionKeys = {}
    /\ IF part = "hdr" THEN TRUE ELSE HeadersUnused
    /\ IF part = "pin" THEN TRUE ELSE PinnerUnused
    /\ IF part = "codec" THEN TRUE ELSE CodecUnused
    /\ IF part = "hooks" THEN TRUE ELSE HooksUnused
    /\ IF part = "wrap" THEN TRUE ELSE WrapUnused
    /\ IF part = "grease" THEN TRUE ELSE greaseVersions = << >>

Init ==
    /\ protocol = ProtocolAuto
    /\ proxy \in ProxyConfigs
    /\ \E name \in PresetNames : preset = FingerprintGet(name)
    /\ protocolSupport = [h \in Hosts |-> Unknown]
    /\ h1Transport = NewHTTP1TransportWithProxy(preset, proxy)
    /\ h2Transport = NewHTTP2TransportWithProxy(preset, proxy)
    /\ h3Transport = NewHTTP3Transport(preset)
    /\ tasks = [g \in Goroutines |-> IdleTask]
    /\ learnedH1 = {}
    /\ doCount = 0
    /\ reconfCount = 0
    /\ insecureSkipVerify = FALSE
    /\ timeout = DefaultTimeout
    /\ timers = [g \in Goroutines |-> NoTimer]
    /\ closed = {}
    /\ reconf = NoReconf
    /\ issued = [g \in Goroutines |-> NoIssue]
    /\ pool = NoConnections
    /\ probe = [g \in Goroutines |-> NoProbe]
    /\ LibUnusedBut("")

ProxyConfigured == ~proxy.nil /\ proxy.URL # ""

\* What a Do call for u meets (history)
Observed(u) ==
    [proxied |-> ProxyConfigured, learnedH1 |-> extractHost(u) \in learnedH1]

\* Goroutine g calls Do(ctx, req), as long as fewer than limit calls were made
DoCall(g, u, limit) ==
    /\ tasks[g].pc \in {"idle", "done"}
    /\ doCount < limit
    /\ tasks' = [tasks EXCEPT ![g] =
                    [DoStart(u, proxy, protocol, protocolSupport, preset)
                        EXCEPT !.seen = Observed(u)]]
    /\ doCount' = doCount + 1
    /\ UNCHANGED <<protocol, proxy, preset, protocolSupport, h1Transport,
                   h2Transport, h3Transport, learnedH1, reconfCount,
                   insecureSkipVerify, timeout>>

DoUpTo(g, u, limit) ==
    DoCall(g, u, limit) /\ UNCHANGED <<timeVars, closed, raceVars, connVars, libVars>>

Do(g, u) == DoUpTo(g, u, MaxDo)

\* The goroutine that calls Do while another reconfigures the Transport
Caller == CHOOSE g \in Goroutines : TRUE

\* Goroutine g makes its one Do call
DoOnce(g, u) == tasks[g].pc = "idle" /\ DoUpTo(g, u, Cardinality(Goroutines))

\* The doHTTPn call goroutine g is in returns, with outcome o of its round trip
AttemptEnds(g, o) ==
    /\ tasks[g].pc = "inflight"
    /\ LET r == AttemptResult[Cur(tasks[g]), tasks[g].req, o]
           s == DoContinue(tasks[g], r, protocolSupport)
       IN /\ tasks' = [tasks EXCEPT ![g] = s.task]
          /\ protocolSupport' = s.support
          /\ learnedH1' = learnedH1 \cup
                {h \in Hosts : s.support[h] = ProtocolHTTP1}
    /\ UNCHANGED <<protocol, proxy, preset, h1Transport, h2Transport,
                   h3Transport, doCount, reconfCount, insecureSkipVerify,
                   timeout>>

AttemptReturns(g, o) ==
    AttemptEnds(g, o) /\ UNCHANGED <<timeVars, closed, raceVars, connVars, libVars>>

SetProtocol(p) ==
    /\ protocol' = p
    /\ UNCHANGED <<proxy, preset, protocolSupport, h1Transport, h2Transport,
                   h3Transport, tasks, learnedH1, doCount, insecureSkipVerify,
                   timeout, timeVars, closed, raceVars, connVars, libVars>>

\* Only the HTTP/1.1 transport is told
SetInsecureSkipVerify(skip) ==
    /\ insecureSkipVerify' = skip
    /\ h1Transport' = [h1Transport EXCEPT !.insecureSkipVerify = skip]
    /\ UNCHANGED <<protocol, proxy, preset, protocolSupport, h2Transport,
                   h3Transport, tasks, learnedH1, doCount, timeout, timeVars,
                   closed, raceVars, connVars, libVars>>

\* Variant of SetProxy: the HTTP/3 transport is re-created as well
SetProxy_RecreatingH3(px) ==
    /\ proxy' = px
    /\ closed' = closed \cup {Instance("h1", h1Transport),
                              Instance("h2", h2Transport),
                              Instance("h3", h3Transport)}
    /\ h1Transport' =
          Replacing(h1Transport, NewHTTP1TransportWithProxy(preset, px))
    /\ h2Transport' =
          Replacing(h2Transport, NewHTTP2TransportWithProxy(preset, px))
    /\ h3Transport' = Replacing(h3Transport, NewHTTP3Transport(preset))
    /\ UNCHANGED <<protocol, preset, protocolSupport, tasks, learnedH1,
                   doCount, insecureSkipVerify, timeout, timeVars, raceVars, connVars, libVars>>

\* SetProxy with nothing running in between its statements
SetProxy(px) ==
    /\ proxy' = px
    /\ closed' = closed \cup {Instance("h1", h1Transport),
                              Instance("h2", h2Transport)}
    /\ h1Transport' =
          Replacing(h1Transport, NewHTTP1TransportWithProxy(preset, px))
    /\ h2Transport' =
          Replacing(h2Transport, NewHTTP2TransportWithProxy(preset, px))
    /\ UNCHANGED <<protocol, preset, protocolSupport, h3Transport, tasks,
                   learnedH1, doCount, insecureSkipVerify, timeout, timeVars,
                   raceVars, connVars, libVars>>

\* SetPreset with nothing running in between its statements
SetPreset(name) ==
    /\ preset' = FingerprintGet(name)
    /\ closed' = closed \cup {Instance("h1", h1Transport),
                              Instance("h2", h2Transport),
                              Instance("h3", h3Transport)}
    /\ h1Transport' =
          Replacing(h1Transport, NewHTTP1TransportWithProxy(preset', proxy))
    /\ h2Transport' =
          Replacing(h2Transport, NewHTTP2TransportWithProxy(preset', proxy))
    /\ h3Transport' = Replacing(h3Transport, NewHTTP3Transport(preset'))
    /\ UNCHANGED <<protocol, proxy, protocolSupport, tasks, learnedH1, doCount,
                   insecureSkipVerify, timeout, timeVars, raceVars, connVars, libVars>>

SetTimeout(d) ==
    /\ timeout' = d
    /\ UNCHANGED <<protocol, proxy, preset, protocolSupport, h1Transport,
                   h2Transport, h3Transport, tasks, learnedH1, doCount,
                   insecureSkipVerify, timeVars, closed,
                   raceVars, connVars, libVars>>

ClearProtocolCache ==
    /\ protocolSupport' = [h \in Hosts |-> Unknown]
    /\ learnedH1' = {}
    /\ UNCHANGED <<protocol, proxy, preset, h1Transport, h2Transport,
                   h3Transport, tasks, doCount, insecureSkipVerify, timeout,
                   timeVars, closed, raceVars, connVars, libVars>>

\* A reconfiguration call, as long as fewer than limit were made
Reconfigure(limit, call) ==
    /\ reconfCount < limit
    /\ reconfCount' = reconfCount + 1
    /\ call

Next ==
    \/ \E g \in Goroutines, u \in RequestURLs : Do(g, u)
    \/ \E g \in Goroutines, o \in Outcomes : AttemptReturns(g, o)
    \/ \E p \in Protocols : Reconfigure(MaxReconf, SetProtocol(p))
    \/ \E px \in ProxyConfigs : Reconfigure(MaxReconf, SetProxy(px))
    \/ \E name \in PresetNames : Reconfigure(MaxReconf, SetPreset(name))
    \/ Reconfigure(MaxReconf, ClearProtocolCache)

Spec == Init /\ [][Next]_vars

\* Auto mode without a proxy: the Transport as NewTransport leaves it, called
\* by concurrent goroutines and never reconfigured
InitAuto == Init /\ ~ProxyConfigured

DoAgain(g, u) == DoUpTo(g, u, MaxAutoDo)

\* Do, with the time it takes.  Every doHTTPn call derives its own context
\* from the caller's: ctx, cancel := context.WithTimeout(ctx, timeout), with
\* timeout the request's Timeout if > 0 and t.timeout otherwise.  limit is that
\* timeout, spent the time the running doHTTPn call has taken, total the time
\* since Do was called.
DoTimed(g, u, reqTimeout) ==
    /\ DoCall(g, u, MaxTimedDo)
    /\ timers' = [timers EXCEPT ![g] =
                    [limit |-> IF reqTimeout > 0 THEN reqTimeout ELSE timeout,
                     spent |-> 0, total |-> 0]]
    /\ UNCHANGED <<closed, raceVars, connVars, libVars>>

\* Time passes while goroutine g's doHTTPn call is running; the call's context
\* expires when limit is reached
Tick(g, d) ==
    /\ tasks[g].pc = "inflight"
    /\ timers[g].spent < timers[g].limit
    /\ LET step == IF timers[g].spent + d > timers[g].limit
                   THEN timers[g].limit - timers[g].spent ELSE d
       IN timers' = [timers EXCEPT ![g] =
                        [@ EXCEPT !.spent = @ + step, !.total = @ + step]]
    /\ UNCHANGED <<protocol, proxy, preset, protocolSupport, h1Transport,
                   h2Transport, h3Transport, tasks, learnedH1, doCount,
                   reconfCount, insecureSkipVerify, timeout, closed, raceVars, connVars, libVars>>

\* The running doHTTPn call returns: with context.DeadlineExceeded exactly when
\* its context has expired.  The next doHTTPn call starts a new context.
TimedAttemptReturns(g, o) ==
    /\ (o.cause = ErrDeadlineExceeded) <=> (timers[g].spent = timers[g].limit)
    /\ AttemptEnds(g, o)
    /\ timers' = [timers EXCEPT ![g] = [@ EXCEPT !.spent = 0]]
    /\ UNCHANGED <<closed, raceVars, connVars, libVars>>

NextTime ==
    \/ \E g \in Goroutines, u \in RequestURLs, rt \in RequestTimeouts :
            DoTimed(g, u, rt)
    \/ \E g \in Goroutines, d \in TimeSteps : Tick(g, d)
    \/ \E g \in Goroutines, o \in Outcomes : TimedAttemptReturns(g, o)

SpecTime == Init /\ [][NextTime]_vars

\* The Transport under reconfiguration of every kind, with one goroutine
\* calling Do once in between
NextConfig ==
    \/ \E u \in RequestURLs : DoOnce(Caller, u)
    \/ \E o \in Outcomes : AttemptReturns(Caller, o)
    \/ \E p \in Protocols : Reconfigure(MaxConfig, SetProtocol(p))
    \/ \E skip \in BOOLEAN : Reconfigure(MaxConfig, SetInsecureSkipVerify(skip))
    \/ \E px \in ProxyConfigs : Reconfigure(MaxConfig, SetProxy(px))
    \/ \E name \in PresetNames : Reconfigure(MaxConfig, SetPreset(name))
    \/ \E d \in Timeouts : Reconfigure(MaxConfig, SetTimeout(d))
    \/ Reconfigure(MaxConfig, ClearProtocolCache)

SpecConfig == Init /\ [][NextConfig]_vars

\* SetProxy and SetPreset statement by statement, with the Do call of another
\* goroutine running in between: the Transport's fields are read and written
\* without a lock.
Field(kind) ==
    CASE kind = "h1" -> h1Transport
      [] kind = "h2" -> h2Transport
      [] kind = "h3" -> h3Transport

\* The field of the transport a doHTTPn call for protocol p uses
KindOf(p) ==
    CASE p = ProtocolHTTP1 -> "h1"
      [] p = ProtocolHTTP2 -> "h2"
      [] p = ProtocolHTTP3 -> "h3"

\* t.hnTransport.RoundTrip(httpReq): the instance the field holds right now
Issue(p) ==
    LET inst == Instance(KindOf(p), Field(KindOf(p)))
    IN [kind |-> inst.kind, gen |-> inst.gen, onClosed |-> inst \in closed]

\* SetProxy, first statement: t.proxy = proxy
SetProxyBegins(px) ==
    /\ reconf = NoReconf
    /\ proxy' = px
    /\ reconf' = [op |-> "SetProxy", close |-> <<"h1", "h2">>,
                  create |-> <<"h1", "h2">>]
    /\ UNCHANGED <<preset, h1Transport, h2Transport, h3Transport, closed>>

\* SetPreset, first statement: t.preset = fingerprint.Get(presetName)
SetPresetBegins(name) ==
    /\ reconf = NoReconf
    /\ preset' = FingerprintGet(name)
    /\ reconf' = [op |-> "SetPreset", close |-> <<"h1", "h2", "h3">>,
                  create |-> <<"h1", "h2", "h3">>]
    /\ UNCHANGED <<proxy, h1Transport, h2Transport, h3Transport, closed>>

ReconfBegins(limit, call) ==
    /\ Reconfigure(limit, call)
    /\ UNCHANGED <<protocol, protocolSupport, tasks, learnedH1, doCount,
                   insecureSkipVerify, timeout, timeVars, issued, connVars, libVars>>

\* The call in progress closes the next transport: t.hnTransport.Close()
ReconfCloses ==
    /\ reconf.close # <<>>
    /\ closed' = closed \cup
                    {Instance(Head(reconf.close), Field(Head(reconf.close)))}
    /\ reconf' = [reconf EXCEPT !.close = Tail(@)]
    /\ UNCHANGED <<protocol, proxy, preset, protocolSupport, h1Transport,
                   h2Transport, h3Transport, tasks, learnedH1, doCount,
                   reconfCount, insecureSkipVerify, timeout, timeVars, issued, connVars, libVars>>

\* The call in progress assigns the next re-created transport, and returns
\* after the last
ReconfCreates ==
    /\ reconf.close = <<>> /\ reconf.create # <<>>
    /\ LET kind == Head(reconf.create) IN
        /\ h1Transport' =
              IF kind = "h1"
              THEN Replacing(h1Transport,
                             NewHTTP1TransportWithProxy(preset, proxy))
              ELSE h1Transport
        /\ h2Transport' =
              IF kind = "h2"
              THEN Replacing(h2Transport,
                             NewHTTP2TransportWithProxy(preset, proxy))
              ELSE h2Transport
        /\ h3Transport' =
              IF kind = "h3"
              THEN Replacing(h3Transport, NewHTTP3Transport(preset))
              ELSE h3Transport
    /\ reconf' = IF Len(reconf.create) = 1 THEN NoReconf
                 ELSE [reconf EXCEPT !.create = Tail(@)]
    /\ UNCHANGED <<protocol, proxy, preset, protocolSupport, tasks, learnedH1,
                   doCount, reconfCount, insecureSkipVerify, timeout, timeVars,
                   closed, connVars, libVars>>
    /\ UNCHANGED issued

\* Goroutine g calls Do; its first doHTTPn call issues its round trip
RacingDo(g, u) ==
    /\ tasks[g].pc = "idle"
    /\ DoCall(g, u, Cardinality(Goroutines))
    /\ issued' = [issued EXCEPT ![g] = Issue(Cur(tasks'[g]))]
    /\ UNCHANGED <<timeVars, closed, reconf, connVars, libVars>>

\* Goroutine g's doHTTPn call returns; if Do makes another, that one issues
\* its round trip
RacingAttemptReturns(g, o) ==
    /\ AttemptEnds(g, o)
    /\ issued' = IF tasks'[g].pc = "inflight"
                 THEN [issued EXCEPT ![g] = Issue(Cur(tasks'[g]))]
                 ELSE issued
    /\ UNCHANGED <<timeVars, closed, reconf, connVars, libVars>>

NextRace ==
    \/ \E u \in RequestURLs : RacingDo(Caller, u)
    \/ \E o \in Outcomes : RacingAttemptReturns(Caller, o)
    \/ \E px \in ProxyConfigs : ReconfBegins(MaxRaceReconf, SetProxyBegins(px))
    \/ \E name \in PresetNames :
            ReconfBegins(MaxRaceReconf, SetPresetBegins(name))
    \/ ReconfCloses
    \/ ReconfCreates

SpecRace == Init /\ [][NextRace]_vars

\* HTTP2Transport.GetConnectionUseCount(host, port)
GetConnectionUseCount(host) == pool.h2[host]

\* HTTP3Transport.GetDialCount()
GetDialCount == pool.dials

\* doHTTP2, timing breakdown: connectionOverhead := timing.FirstByte * 0.7,
\* apportioned 20/30/50 if above 10 ms
TimingH2(firstByte, wasReused) ==
    IF wasReused \/ ~(firstByte * 7 > 100) THEN NoTiming
    ELSE [DNSLookup |-> firstByte * 7 * 2, TCPConnect |-> firstByte * 7 * 3,
          TLSHandshake |-> firstByte * 7 * 5]

\* doHTTP3, timing breakdown: no TCP; 30/70 if above 10 ms
TimingH3(firstByte, wasReused) ==
    IF wasReused \/ ~(firstByte * 7 > 100) THEN NoTiming
    ELSE [DNSLookup |-> firstByte * 7 * 3, TCPConnect |-> 0,
          TLSHandshake |-> firstByte * 7 * 7]

\* doHTTPn up to the count it reads before the request
CountBefore(g, p, host) ==
    /\ probe[g].pc \in {"idle", "done"}
    /\ doCount < MaxConnDo
    /\ doCount' = doCount + 1
    /\ probe' = [probe EXCEPT ![g] =
                    [NoProbe EXCEPT !.pc = "counted", !.proto = p,
                                    !.host = host,
                                    !.existed = IF p = ProtocolHTTP2
                                                THEN pool.h2[host] > 0
                                                ELSE host \in pool.h3,
                                    !.before = IF p = ProtocolHTTP2
                                               THEN GetConnectionUseCount(host)
                                               ELSE GetDialCount]]
    /\ UNCHANGED <<protocol, proxy, preset, protocolSupport, h1Transport,
                   h2Transport, h3Transport, tasks, learnedH1, reconfCount,
                   insecureSkipVerify, timeout, timeVars, closed, raceVars,
                   pool, libVars>>

\* RoundTrip answers: on the host's connection if there is one, on a newly
\* dialed one otherwise
RoundTripAnswers(g, fb) ==
    /\ probe[g].pc = "counted"
    /\ LET host == probe[g].host
           dial == IF probe[g].proto = ProtocolHTTP2
                   THEN pool.h2[host] = 0 ELSE host \notin pool.h3
       IN /\ pool' = IF probe[g].proto = ProtocolHTTP2
                     THEN [pool EXCEPT !.h2[host] = @ + 1]
                     ELSE IF dial
                          THEN [pool EXCEPT !.h3 = @ \cup {host},
                                            !.dials = @ + 1]
                          ELSE pool
          /\ probe' = [probe EXCEPT ![g] =
                          [@ EXCEPT !.pc = "answered", !.formed = dial,
                                    !.firstByte = fb]]
    /\ UNCHANGED <<protocol, proxy, preset, protocolSupport, h1Transport,
                   h2Transport, h3Transport, tasks, learnedH1, doCount,
                   reconfCount, insecureSkipVerify, timeout, timeVars, closed,
                   raceVars, libVars>>

\* doHTTPn after the body is read: wasReused and the timing breakdown
BuildsResponse(g) ==
    /\ probe[g].pc = "answered"
    /\ probe' = [probe EXCEPT ![g] =
          [@ EXCEPT !.pc = "done",
                    !.timing =
                       IF probe[g].proto = ProtocolHTTP2
                       THEN TimingH2(probe[g].firstByte, probe[g].before >= 1)
                       ELSE TimingH3(probe[g].firstByte,
                                     GetDialCount = probe[g].before)]]
    /\ UNCHANGED <<protocol, proxy, preset, protocolSupport, h1Transport,
                   h2Transport, h3Transport, tasks, learnedH1, doCount,
                   reconfCount, insecureSkipVerify, timeout, timeVars, closed,
                   raceVars, pool, libVars>>

\* A pooled connection is closed (idle timeout, GOAWAY, network loss)
ConnectionDrops(p, host) ==
    /\ pool.drops < MaxDrops
    /\ IF p = ProtocolHTTP2 THEN pool.h2[host] > 0 ELSE host \in pool.h3
    /\ pool' = IF p = ProtocolHTTP2
               THEN [pool EXCEPT !.h2[host] = 0, !.drops = @ + 1]
               ELSE [pool EXCEPT !.h3 = @ \ {host}, !.drops = @ + 1]
    /\ UNCHANGED <<protocol, proxy, preset, protocolSupport, h1Transport,
                   h2Transport, h3Transport, tasks, learnedH1, doCount,
                   reconfCount, insecureSkipVerify, timeout, timeVars, closed,
                   raceVars, probe, libVars>>

PooledProtocols == {ProtocolHTTP2, ProtocolHTTP3}

NextConn ==
    \/ \E g \in Goroutines, p \in PooledProtocols, h \in ConnHosts :
            CountBefore(g, p, h)
    \/ \E g \in Goroutines, fb \in FirstBytes : RoundTripAnswers(g, fb)
    \/ \E g \in Goroutines : BuildsResponse(g)
    \/ \E p \in PooledProtocols, h \in ConnHosts : ConnectionDrops(p, h)

SpecConn == Init /\ [][NextConn]_vars

NextAuto ==
    \/ \E g \in Goroutines, u \in RequestURLs : DoAgain(g, u)
    \/ \E g \in Goroutines, o \in Outcomes : AttemptReturns(g, o)

SpecAuto == InitAuto /\ [][NextAuto]_vars

\* Auto mode without a proxy, one Do call per goroutine, over requests of every
\* shape and every way a doHTTPn call can end
NextReq ==
    \/ \E g \in Goroutines, u \in AllURLs \cup {BadURL} : DoOnce(g, u)
    \/ \E g \in Goroutines, o \in AllOutcomes : AttemptReturns(g, o)

SpecReq == InitAuto /\ [][NextReq]_vars

-----------------------------------------------------------------------------
(* The error constructors, applied to causes of every shape *)

\* Messages of the errors the transports meet
CauseMessages ==
    {"i/o timeout",
     "lookup a.test: no such host",
     "tls: server selected unadvertised ALPN protocol",
     "x509: certificate signed by unknown authority",
     "read tcp: connection reset by peer",
     "TLS handshake failed: EOF",
     "http2: unexpected ALPN protocol",
     "proxyconnect tcp: connection refused",
     "unexpected EOF",
     "malformed HTTP response"}

\* An error of any dynamic type: a net.Error answering Timeout() and
\* Temporary() either way, a *net.DNSError or not
Causes ==
    {PlainError(m, t, tmp, d) : m \in CauseMessages, t \in BOOLEAN,
                                tmp \in BOOLEAN, d \in BOOLEAN}

\* A Transport nobody calls: no proxy, the default preset
IdleTransport ==
    /\ protocol = ProtocolAuto
    /\ proxy = NilProxy
    /\ preset = FingerprintGet("chrome-145")
    /\ protocolSupport = [h \in Hosts |-> Unknown]
    /\ h1Transport = NewHTTP1TransportWithProxy(preset, proxy)
    /\ h2Transport = NewHTTP2TransportWithProxy(preset, proxy)
    /\ h3Transport = NewHTTP3Transport(preset)
    /\ tasks = [g \in Goroutines |-> IdleTask]
    /\ learnedH1 = {}
    /\ doCount = 0
    /\ reconfCount = 0
    /\ insecureSkipVerify = FALSE
    /\ timeout = DefaultTimeout
    /\ timers = [g \in Goroutines |-> NoTimer]
    /\ closed = {}
    /\ reconf = NoReconf
    /\ issued = [g \in Goroutines |-> NoIssue]
    /\ pool = NoConnections
    /\ probe = [g \in Goroutines |-> NoProbe]

InitErr ==
    /\ IdleTransport
    /\ LibUnusedBut("err")
    /\ given \in Causes
    /\ built = NilErr

\* One constructor call on the given cause
Builds(e) ==
    /\ built = NilErr
    /\ built' = e
    /\ UNCHANGED <<facadeVars, poolVars, pskVars, sessionKeys, hdrVars, pinVars,
                   codecVars, hookVars, wrapVars, greaseVersions, given>>

CallWrapError == Builds(WrapError("request", "a.test", "443", "h2", given))
CallNewConnectionError ==
    Builds(NewConnectionError("dial", "a.test", "443", "h2", given))
CallNewTLSError ==
    Builds(NewTLSError("tls_handshake", "a.test", "443", "h2", given))
CallNewDNSError == Builds(NewDNSError("a.test", given))
CallNewTimeoutError ==
    Builds(NewTimeoutError("request", "a.test", "443", "h2", given))
CallNewProxyError == Builds(NewProxyError("proxy_connect", "a.test", "443", given))
CallNewProtocolError == Builds(NewProtocolError("a.test", "443", "h2", given))
CallNewRequestError ==
    Builds(NewRequestError("request", "a.test", "443", "h2", given))

NextErr ==
    \/ CallWrapError
    \/ CallNewConnectionError
    \/ CallNewTLSError
    \/ CallNewDNSError
    \/ CallNewTimeoutError
    \/ CallNewProxyError
    \/ CallNewProtocolError
    \/ CallNewRequestError

SpecErr == InitErr /\ [][NextErr]_vars

-----------------------------------------------------------------------------
(* The connection pool: acquire and the coalescing of dials *)

\* HostKey: (scheme, host, port); a pool key adds the protocol
PoolKey(hostKey, proto) == [hostKey |-> hostKey, proto |-> proto]

PoolKeys ==
    {PoolKey(URL("https", "a.test", "443"), p) : p \in PooledProtocols}

\* A pool slot: its connections and its dial-dedup state (the number of the
\* dial in progress, 0 when there is none)
EmptySlot == [conns |-> {}, dial |-> 0]

Connection(id) == [id |-> id, usable |-> TRUE]

\* What acquire returned: a connection or an error
NoOutcome == [conn |-> 0, err |-> NilErr]
GotConnection(id) == [conn |-> id, err |-> NilErr]
GotError(e) == [conn |-> 0, err |-> e]

\* A caller of acquire.  waited (history): it awaited another caller's dial
IdleAcquirer ==
    [pc |-> "idle", key |-> PoolKey(NoReq, ""), got |-> NoOutcome,
     waited |-> FALSE]

\* The errors a dial ends with
DialErrors ==
    {PlainError("dial tcp: connection refused", FALSE, FALSE, FALSE),
     PlainError("i/o timeout", TRUE, TRUE, FALSE)}

InitPool ==
    /\ IdleTransport
    /\ LibUnusedBut("pool")
    /\ slots = [k \in PoolKeys |-> EmptySlot]
    /\ acquirers = [c \in Acquirers |-> IdleAcquirer]
    /\ dialsMade = 0
    /\ acquireCount = 0

Usable(k) == {x \in slots[k].conns : x.usable}

\* Variant of Acquire: a caller that finds no usable connection always dials
Acquire_NoCoalescing(c, k) ==
    /\ acquirers[c].pc \in {"idle", "done"}
    /\ acquireCount < MaxAcquire
    /\ acquireCount' = acquireCount + 1
    /\ IF Usable(k) # {}
       THEN /\ \E x \in Usable(k) :
                  acquirers' = [acquirers EXCEPT ![c] =
                      [pc |-> "done", key |-> k, got |-> GotConnection(x.id),
                       waited |-> FALSE]]
            /\ slots' = [slots EXCEPT ![k].conns = Usable(k)]
            /\ UNCHANGED dialsMade
       ELSE /\ dialsMade < MaxDials
            /\ dialsMade' = dialsMade + 1
            /\ slots' = [slots EXCEPT ![k] =
                            [conns |-> {}, dial |-> dialsMade + 1]]
            /\ acquirers' = [acquirers EXCEPT ![c] =
                   [pc |-> "dialing", key |-> k, got |-> NoOutcome,
                    waited |-> FALSE]]
    /\ UNCHANGED <<facadeVars, errVars, pskVars, sessionKeys, hdrVars, pinVars,
                   codecVars, hookVars, wrapVars, greaseVersions>>

\* acquire(HostKey, Protocol) up to its return or to the point where it waits:
\* unusable connections are removed, a usable one is returned; with none, the
\* caller joins the dial in progress or starts one
Acquire(c, k) ==
    /\ acquirers[c].pc \in {"idle", "done"}
    /\ acquireCount < MaxAcquire
    /\ acquireCount' = acquireCount + 1
    /\ IF Usable(k) # {}
       THEN /\ \E x \in Usable(k) :
                  acquirers' = [acquirers EXCEPT ![c] =
                      [pc |-> "done", key |-> k, got |-> GotConnection(x.id),
                       waited |-> FALSE]]
            /\ slots' = [slots EXCEPT ![k].conns = Usable(k)]
            /\ UNCHANGED dialsMade
       ELSE IF slots[k].dial # 0
       THEN /\ acquirers' = [acquirers EXCEPT ![c] =
                   [pc |-> "waiting", key |-> k, got |-> NoOutcome,
                    waited |-> TRUE]]
            /\ slots' = [slots EXCEPT ![k].conns = {}]
            /\ UNCHANGED dialsMade
       ELSE /\ dialsMade < MaxDials
            /\ dialsMade' = dialsMade + 1
            /\ slots' = [slots EXCEPT ![k] =
                            [conns |-> {}, dial |-> dialsMade + 1]]
            /\ acquirers' = [acquirers EXCEPT ![c] =
                   [pc |-> "dialing", key |-> k, got |-> NoOutcome,
                    waited |-> FALSE]]
    /\ UNCHANGED <<facadeVars, errVars, pskVars, sessionKeys, hdrVars, pinVars,
                   codecVars, hookVars, wrapVars, greaseVersions>>

\* The callers the dial on k answers: the one that dials and those that wait
Awaiting(k) ==
    {c \in Acquirers : acquirers[c].key = k
                       /\ acquirers[c].pc \in {"dialing", "waiting"}}

\* The dial on k ends: every caller awaiting it returns its outcome
DialEnds(k, outcome) ==
    acquirers' = [c \in Acquirers |->
                     IF c \in Awaiting(k)
                     THEN [acquirers[c] EXCEPT !.pc = "done", !.got = outcome]
                     ELSE acquirers[c]]

\* Variant of DialFails: the failed dial leaves a connection in the slot
DialFails_Stored(k, e) ==
    /\ slots[k].dial # 0
    /\ slots' = [slots EXCEPT ![k] =
                    [conns |-> @.conns \cup {Connection(@.dial)}, dial |-> 0]]
    /\ DialEnds(k, GotError(e))
    /\ UNCHANGED <<facadeVars, errVars, pskVars, sessionKeys, hdrVars, pinVars,
                   codecVars, hookVars, wrapVars, greaseVersions,
                   dialsMade, acquireCount>>

DialSucceeds(k) ==
    /\ slots[k].dial # 0
    /\ slots' = [slots EXCEPT ![k] =
                    [conns |-> @.conns \cup {Connection(@.dial)}, dial |-> 0]]
    /\ DialEnds(k, GotConnection(slots[k].dial))
    /\ UNCHANGED <<facadeVars, errVars, pskVars, sessionKeys, hdrVars, pinVars,
                   codecVars, hookVars, wrapVars, greaseVersions,
                   dialsMade, acquireCount>>

\* The dial error reaches the callers as it is; nothing is stored
DialFails(k, e) ==
    /\ slots[k].dial # 0
    /\ slots' = [slots EXCEPT ![k].dial = 0]
    /\ DialEnds(k, GotError(e))
    /\ UNCHANGED <<facadeVars, errVars, pskVars, sessionKeys, hdrVars, pinVars,
                   codecVars, hookVars, wrapVars, greaseVersions,
                   dialsMade, acquireCount>>

\* release(Connection, unhealthy), or the connection's idle or age limit
BecomesUnusable(k, id) ==
    /\ Connection(id) \in slots[k].conns
    /\ slots' = [slots EXCEPT ![k].conns =
                    (@ \ {Connection(id)})
                    \cup {[Connection(id) EXCEPT !.usable = FALSE]}]
    /\ UNCHANGED <<facadeVars, errVars, pskVars, sessionKeys, hdrVars, pinVars,
                   codecVars, hookVars, wrapVars, greaseVersions,
                   acquirers, dialsMade, acquireCount>>

NextPool ==
    \/ \E c \in Acquirers, k \in PoolKeys : Acquire(c, k)
    \/ \E k \in PoolKeys : DialSucceeds(k)
    \/ \E k \in PoolKeys, e \in DialErrors : DialFails(k, e)
    \/ \E k \in PoolKeys, id \in 1..MaxDials : BecomesUnusable(k, id)

SpecPool == InitPool /\ [][NextPool]_vars

-----------------------------------------------------------------------------
(* The ClientHello variant of a dial: PSK only with a cached session *)

\* Recommended cache TTL, in hours
SessionTTL == 23

\* The time that passes in one step, in hours
HourSteps == {8}

DialHosts == {"a.test", "b.test"}

NoSession == [cached |-> FALSE, CreatedAt |-> 0]

\* TLSSessionState, with its creation time
TLSSessionState(createdAt) == [cached |-> TRUE, CreatedAt |-> createdAt]

\* ClientHello variants
ClientHelloSpec == "regular"
ClientHelloSpecPSK == "psk"

\* No dial made yet.  entry, at, hasPSK (history): the cache entry of the host,
\* the time and whether there was a PSK spec when the dial was made
NoDial ==
    [host |-> "", spec |-> "", entry |-> NoSession, at |-> 0,
     hasPSK |-> FALSE]

\* cmd/test_session_resumption: pc is "start", "first" once the first
\* connection is made, "second" once the second is; session: whether the first
\* connection left a session in the cache
NoTestRun ==
    [pc |-> "start", session |-> FALSE, first |-> "", second |-> ""]

InitPSK ==
    /\ IdleTransport
    /\ LibUnusedBut("psk")
    /\ cachedClientHelloSpecPSK \in BOOLEAN
    /\ sessions = [h \in DialHosts |-> NoSession]
    /\ now = 0
    /\ dialed = NoDial
    /\ resumptionTest = NoTestRun

\* Sessions older than the TTL are ignored during Get operations
hasSessionForHost(host) ==
    sessions[host].cached /\ now - sessions[host].CreatedAt <= SessionTTL

\* Variant of getSpecForHost: the cached session alone decides
getSpecForHost_AnyPreset(host) ==
    IF hasSessionForHost(host) THEN ClientHelloSpecPSK ELSE ClientHelloSpec

\* HTTP3Transport.getSpecForHost
getSpecForHost(host) ==
    IF cachedClientHelloSpecPSK /\ hasSessionForHost(host)
    THEN ClientHelloSpecPSK
    ELSE ClientHelloSpec

\* A dial to host: the ClientHello is built from the spec chosen for it
Dials(host) ==
    /\ dialed' = [host |-> host, spec |-> getSpecForHost(host),
                  entry |-> sessions[host], at |-> now,
                  hasPSK |-> cachedClientHelloSpecPSK]
    /\ UNCHANGED <<facadeVars, errVars, poolVars, sessionKeys, hdrVars, pinVars,
                   codecVars, hookVars, wrapVars, greaseVersions,
                   cachedClientHelloSpecPSK, sessions, now,
                   resumptionTest>>

\* The peer delivers a NewSessionTicket on the connection last dialed
TicketArrives ==
    /\ dialed.host # ""
    /\ sessions' = [sessions EXCEPT ![dialed.host] = TLSSessionState(now)]
    /\ UNCHANGED <<facadeVars, errVars, poolVars, sessionKeys, hdrVars, pinVars,
                   codecVars, hookVars, wrapVars, greaseVersions,
                   cachedClientHelloSpecPSK, now, dialed, resumptionTest>>

HoursPass(d) ==
    /\ now + d <= MaxHours
    /\ now' = now + d
    /\ UNCHANGED <<facadeVars, errVars, poolVars, sessionKeys, hdrVars, pinVars,
                   codecVars, hookVars, wrapVars, greaseVersions,
                   cachedClientHelloSpecPSK, sessions, dialed,
                   resumptionTest>>

\* test_session_resumption, first connection: preset.ClientHelloID; the read
\* that follows the handshake may or may not receive a NewSessionTicket
TestFirstConnection(ticket) ==
    /\ resumptionTest.pc = "start"
    /\ resumptionTest' = [resumptionTest EXCEPT !.pc = "first",
                             !.first = ClientHelloSpec, !.session = ticket]
    /\ UNCHANGED <<facadeVars, errVars, poolVars, sessionKeys, hdrVars, pinVars,
                   codecVars, hookVars, wrapVars, greaseVersions,
                   cachedClientHelloSpecPSK, sessions, now, dialed>>

\* test_session_resumption, second connection: preset.PSKClientHelloID if
\* sessionCache.Get(host) finds a session
TestSecondConnection ==
    /\ resumptionTest.pc = "first"
    /\ resumptionTest' = [resumptionTest EXCEPT !.pc = "second",
                             !.second = IF resumptionTest.session
                                        THEN ClientHelloSpecPSK
                                        ELSE ClientHelloSpec]
    /\ UNCHANGED <<facadeVars, errVars, poolVars, sessionKeys, hdrVars, pinVars,
                   codecVars, hookVars, wrapVars, greaseVersions,
                   cachedClientHelloSpecPSK, sessions, now, dialed>>

NextPSK ==
    \/ \E h \in DialHosts : Dials(h)
    \/ TicketArrives
    \/ \E d \in HourSteps : HoursPass(d)
    \/ \E ticket \in BOOLEAN : TestFirstConnection(ticket)
    \/ TestSecondConnection

SpecPSK == InitPSK /\ [][NextPSK]_vars

-----------------------------------------------------------------------------
(* The keys of the distributed session cache *)

\* Variant of FormatSessionCacheKey: the preset is left out of the key
FormatSessionCacheKey_NoPreset(presetName, proto, host, port) ==
    "httpcloak:sessions:" \o proto \o ":" \o host \o ":" \o port

\* Returns "httpcloak:sessions:{preset}:{protocol}:{host}:{port}"
FormatSessionCacheKey(presetName, proto, host, port) ==
    "httpcloak:sessions:" \o presetName \o ":" \o proto \o ":" \o host
    \o ":" \o port

\* Returns "httpcloak:ech:{preset}:{host}:{port}"
FormatECHCacheKey(presetName, host, port) ==
    "httpcloak:ech:" \o presetName \o ":" \o host \o ":" \o port

\* Preset names, protocol tags, host names (url.Hostname(): an IPv6 literal
\* has lost its brackets) and ports
KeyPresets == PresetNames \cup {"firefox-133"}
KeyProtocols == {ProtocolHTTP1, ProtocolHTTP2, ProtocolHTTP3}
KeyHosts == {"a.test", "h2.a.test", "::1"}
KeyPorts == {"443", "8443"}

InitKeys ==
    /\ IdleTransport
    /\ LibUnusedBut("keys")
    /\ sessionKeys = {}

\* A session is stored or looked up for (preset, protocol, host, port)
FormatsKey(presetName, proto, host, port) ==
    /\ Cardinality(sessionKeys) < MaxKeys
    /\ sessionKeys' = sessionKeys \cup
          {[preset |-> presetName, protocol |-> proto, host |-> host,
            port |-> port,
            key |-> FormatSessionCacheKey(presetName, proto, host, port),
            ech |-> FormatECHCacheKey(presetName, host, port)]}
    /\ UNCHANGED <<facadeVars, errVars, poolVars, pskVars, hdrVars, pinVars,
                   codecVars, hookVars, wrapVars, greaseVersions>>

NextKeys ==
    \E presetName \in KeyPresets, proto \in KeyProtocols, host \in KeyHosts,
       port \in KeyPorts : FormatsKey(presetName, proto, host, port)

SpecKeys == InitKeys /\ [][NextKeys]_vars

-----------------------------------------------------------------------------
(* The headers of a request: preset headers and TLS-only mode *)

UpperChar(c) ==
    CASE c = "a" -> "A" [] c = "b" -> "B" [] c = "c" -> "C" [] c = "d" -> "D"
      [] c = "e" -> "E" [] c = "f" -> "F" [] c = "g" -> "G" [] c = "h" -> "H"
      [] c = "i" -> "I" [] c = "j" -> "J" [] c = "k" -> "K" [] c = "l" -> "L"
      [] c = "m" -> "M" [] c = "n" -> "N" [] c = "o" -> "O" [] c = "p" -> "P"
      [] c = "q" -> "Q" [] c = "r" -> "R" [] c = "s" -> "S" [] c = "t" -> "T"
      [] c = "u" -> "U" [] c = "v" -> "V" [] c = "w" -> "W" [] c = "x" -> "X"
      [] c = "y" -> "Y" [] c = "z" -> "Z" [] OTHER -> c

\* textproto.CanonicalMIMEHeaderKey: the first letter and every letter after a
\* hyphen in upper case, the others in lower case
RECURSIVE Canonical(_, _)
Canonical(s, upper) ==
    IF Len(s) = 0 THEN ""
    ELSE LET c == SubSeq(s, 1, 1) IN
         (IF upper THEN UpperChar(c) ELSE LowerChar(c))
         \o Canonical(SubSeq(s, 2, Len(s)), c = "-")

CanonicalMIMEHeaderKey(s) == Canonical(s, TRUE)

\* http.Header (single-valued here): canonical key -> value
NoHeader == << >>

\* http.Header.Set
HeaderSet(h, key, value) ==
    LET k == CanonicalMIMEHeaderKey(key) IN
    [x \in DOMAIN h \cup {k} |-> IF x = k THEN value ELSE h[x]]

\* http.Header.Get
HeaderGet(h, key) ==
    LET k == CanonicalMIMEHeaderKey(key) IN
    IF k \in DOMAIN h THEN h[k] ELSE ""

\* Setting every entry of a map, in the order keys lists them
RECURSIVE SetAll(_, _, _)
SetAll(h, m, keys) ==
    IF keys = <<>> THEN h
    ELSE SetAll(HeaderSet(h, keys[1], m[keys[1]]), m, Tail(keys))

\* Setting the entries of a map that the header does not have yet
RECURSIVE SetMissing(_, _, _)
SetMissing(h, m, keys) ==
    IF keys = <<>> THEN h
    ELSE SetMissing(IF HeaderGet(h, keys[1]) = ""
                    THEN HeaderSet(h, keys[1], m[keys[1]]) ELSE h,
                    m, Tail(keys))

\* preset.Headers and preset.UserAgent of the Chrome presets
PresetHeaderKeys == <<"sec-ch-ua", "sec-ch-ua-mobile", "Accept">>

PresetHeaders ==
    [k \in {PresetHeaderKeys[i] : i \in 1..Len(PresetHeaderKeys)} |->
        CASE k = "sec-ch-ua" -> "Chromium"
          [] k = "sec-ch-ua-mobile" -> "?0"
          [] OTHER -> "text/html"]

PresetUserAgent == "Mozilla/5.0 Chrome"

\* The headers a caller may give, each present or not
CallerHeaderKeys == <<"User-Agent", "X-Custom", "x-custom", "accept", "Sec-Ch-Ua">>

CallerHeaderValues ==
    [k \in {CallerHeaderKeys[i] : i \in 1..Len(CallerHeaderKeys)} |->
        CASE k = "User-Agent" -> "MyBot/1.0"
          [] k = "X-Custom" -> "v"
          [] k = "x-custom" -> "w"
          [] k = "accept" -> "text/plain"
          [] OTHER -> "mine"]

RequestHeaders ==
    {[k \in ks |-> CallerHeaderValues[k]] : ks \in SUBSET DOMAIN CallerHeaderValues}

\* The orders in which a range statement can visit the keys of a map: Go
\* leaves the order unspecified, and it differs from one run to the next
RangeOrders(m) ==
    {keys \in [1..Cardinality(DOMAIN m) -> DOMAIN m] :
        \A i, j \in DOMAIN keys : i # j => keys[i] # keys[j]}

\* Variant of doHTTPHeaders: the caller's headers first, the preset's over them
doHTTPHeaders_PresetOver(headers, keys) ==
    HeaderSet(SetAll(SetAll(NoHeader, headers, keys),
                     PresetHeaders, PresetHeaderKeys),
              "User-Agent", PresetUserAgent)

\* doHTTP1, doHTTP2, doHTTP3: the preset's headers, its User-Agent, then the
\* caller's headers over them
doHTTPHeaders(headers, keys) ==
    SetAll(HeaderSet(SetAll(NoHeader, PresetHeaders, PresetHeaderKeys),
                     "User-Agent", PresetUserAgent),
           headers, keys)

\* The protocol transport's RoundTrip: unless TLSOnly, the preset's headers in
\* the preset's order, where the request has none
RoundTripHeaders(h, only) ==
    IF only THEN h ELSE SetMissing(h, PresetHeaders, PresetHeaderKeys)

NotSent == [sent |-> FALSE, proto |-> "", header |-> NoHeader]

InitHdr ==
    /\ IdleTransport
    /\ LibUnusedBut("hdr")
    /\ tlsOnly \in BOOLEAN
    /\ reqHeaders \in RequestHeaders
    /\ wire = NotSent
    /\ rerun = NotSent

\* What doHTTPn hands to its transport, and the transport sends, when the
\* range over Request.Headers visits the keys in the order keys
Sent(proto, keys) ==
    [sent |-> TRUE, proto |-> proto,
     header |-> RoundTripHeaders(doHTTPHeaders(reqHeaders, keys), tlsOnly)]

\* doHTTPn builds the request and hands it to its transport
SendsRequest(proto, keys) ==
    /\ ~wire.sent
    /\ wire' = Sent(proto, keys)
    /\ UNCHANGED <<facadeVars, errVars, poolVars, pskVars, sessionKeys, pinVars,
                   codecVars, hookVars, wrapVars, greaseVersions, tlsOnly,
                   reqHeaders, rerun>>

\* The same request is made once more, over the same protocol
SendsAgain(keys) ==
    /\ wire.sent
    /\ ~rerun.sent
    /\ rerun' = Sent(wire.proto, keys)
    /\ UNCHANGED <<facadeVars, errVars, poolVars, pskVars, sessionKeys, pinVars,
                   codecVars, hookVars, wrapVars, greaseVersions, tlsOnly,
                   reqHeaders, wire>>

NextHdr ==
    \/ \E proto \in KeyProtocols, keys \in RangeOrders(reqHeaders) :
            SendsRequest(proto, keys)
    \/ \E keys \in RangeOrders(reqHeaders) : SendsAgain(keys)

SpecHdr == InitHdr /\ [][NextHdr]_vars

-----------------------------------------------------------------------------
(* Certificate pinning (client/certpin.go) *)

\* strings.TrimPrefix, strings.HasSuffix, strings.ContainsAny
TrimPrefix(s, prefix) ==
    IF Len(s) >= Len(prefix) /\ SubSeq(s, 1, Len(prefix)) = prefix
    THEN SubSeq(s, Len(prefix) + 1, Len(s)) ELSE s

HasSuffix(s, suffix) ==
    Len(s) >= Len(suffix)
    /\ SubSeq(s, Len(s) - Len(suffix) + 1, Len(s)) = suffix

ContainsAny(s, chars) ==
    \E i \in 1..Len(s), j \in 1..Len(chars) :
        SubSeq(s, i, i) = SubSeq(chars, j, j)

\* The value of a hexadecimal digit, -1 for any other character
HexValue(c) ==
    LET digits == "0123456789abcdef"
        c1 == LowerChar(c)
    IN IF \E i \in 1..16 : SubSeq(digits, i, i) = c1
       THEN (CHOOSE i \in 1..16 : SubSeq(digits, i, i) = c1) - 1
       ELSE -1

IsHex(s) == Len(s) % 2 = 0 /\ \A i \in 1..Len(s) : HexValue(SubSeq(s, i, i)) >= 0

\* The bits of a number, most significant first
RECURSIVE BitsOf(_, _)
BitsOf(n, width) ==
    IF width = 0 THEN <<>> ELSE BitsOf(n \div 2, width - 1) \o <<n % 2>>

\* hex.DecodeString, as the bits of the decoded bytes
RECURSIVE HexBits(_)
HexBits(s) ==
    IF Len(s) = 0 THEN <<>>
    ELSE BitsOf(HexValue(SubSeq(s, 1, 1)), 4) \o HexBits(SubSeq(s, 2, Len(s)))

RECURSIVE BitsValue(_)
BitsValue(bits) ==
    IF bits = <<>> THEN 0
    ELSE 2 * BitsValue(SubSeq(bits, 1, Len(bits) - 1)) + bits[Len(bits)]

Base64Alphabet ==
    "ABCDEFGHIJKLMNOPQRSTUVWXYZabcdefghijklmnopqrstuvwxyz0123456789+/"

\* base64.StdEncoding.EncodeToString of the bytes with these bits: six bits a
\* character, the last group filled with zero bits, '=' up to a multiple of 4
RECURSIVE Base64Chars(_)
Base64Chars(bits) ==
    IF bits = <<>> THEN ""
    ELSE LET n == IF Len(bits) >= 6 THEN 6 ELSE Len(bits)
             group == SubSeq(bits, 1, n) \o [i \in 1..(6 - n) |-> 0]
             v == BitsValue(group)
         IN SubSeq(Base64Alphabet, v + 1, v + 1)
            \o Base64Chars(SubSeq(bits, n + 1, Len(bits)))

Base64Encode(bits) ==
    LET chars == Base64Chars(bits)
        pad == (4 - (Len(chars) % 4)) % 4
    IN chars \o (IF pad = 0 THEN "" ELSE IF pad = 1 THEN "=" ELSE
                 IF pad = 2 THEN "==" ELSE "===")

normalizeHash(hash) ==
    LET h == TrimPrefix(TrimPrefix(hash, "sha256/"), "sha256:") IN
    IF Len(h) = 64 /\ ~ContainsAny(h, "+/=") /\ IsHex(h)
    THEN Base64Encode(HexBits(h))
    ELSE h

\* Certificates, named by their subject public key
Certificates == {"leaf", "intermediate", "zero"}

\* base64 of the SHA-256 of the certificate's RawSubjectPublicKeyInfo
CalculateSPKIHash(cert) ==
    CASE cert = "leaf" -> "bGVhZi1zcGtpLXNoYTI1Ni1kaWdlc3QtMDAwMDAwMDE="
      [] cert = "intermediate" -> "aW50ZXItc3BraS1zaGEyNTYtZGlnZXN0LTAwMDAwMDI="
      [] OTHER -> "AAAAAAAAAAAAAAAAAAAAAAAAAAAAAAAAAAAAAAAAAAA="

CertificatePin(hash, host, includeSubdomains) ==
    [Type |-> "PinTypeSHA256", Hash |-> hash, Host |-> host,
     IncludeSubdomains |-> includeSubdomains]

\* The hash strings given to AddPin: with either prefix, bare, in hexadecimal
PinStrings ==
    {"sha256/bGVhZi1zcGtpLXNoYTI1Ni1kaWdlc3QtMDAwMDAwMDE=",
     "sha256:aW50ZXItc3BraS1zaGEyNTYtZGlnZXN0LTAwMDAwMDI=",
     "0000000000000000000000000000000000000000000000000000000000000000",
     "b3RoZXItc3BraS1zaGEyNTYtZGlnZXN0LTAwMDAwMDM="}

\* The options of a pin: none, ForHost, ForHost with IncludeSubdomains
PinOptions ==
    {[Host |-> "", IncludeSubdomains |-> FALSE],
     [Host |-> "a.test", IncludeSubdomains |-> FALSE],
     [Host |-> "a.test", IncludeSubdomains |-> TRUE]}

\* The pinned domain, subdomains of it at two depths, and a domain whose name
\* ends with the pinned one's
VerifyHosts == {"a.test", "www.a.test", "x.www.a.test", "nota.test"}

\* Certificate chains, the leaf first
Chains ==
    {<<>>, <<"leaf">>, <<"leaf", "intermediate">>, <<"zero">>,
     <<"zero", "intermediate">>}

NoVerify == [called |-> FALSE, host |-> "", certs |-> <<>>, err |-> NilErr]

CertPinError(host, expected, actual) ==
    [kind |-> "CertPinError", Host |-> host, ExpectedHashes |-> expected,
     ActualHashes |-> actual]

\* NewCertPinner
InitPin ==
    /\ IdleTransport
    /\ LibUnusedBut("pin")
    /\ pins = <<>>
    /\ verified = NoVerify

\* normalizeHash of every string given to AddPin
NormalizedPin == [hash \in PinStrings |-> normalizeHash(hash)]

AddPin(hash, host, includeSubdomains) ==
    /\ Len(pins) < MaxPins
    /\ pins' = Append(pins, CertificatePin(NormalizedPin[hash], host,
                                           includeSubdomains))
    /\ verified' = NoVerify
    /\ UNCHANGED <<facadeVars, errVars, poolVars, pskVars, sessionKeys, hdrVars,
                   codecVars, hookVars, wrapVars, greaseVersions>>

\* AddPinFromPEM with data that decodes and parses
AddPinFromPEM(cert, host, includeSubdomains) ==
    /\ Len(pins) < MaxPins
    /\ pins' = Append(pins, CertificatePin(CalculateSPKIHash(cert), host,
                                           includeSubdomains))
    /\ verified' = NoVerify
    /\ UNCHANGED <<facadeVars, errVars, poolVars, pskVars, sessionKeys, hdrVars,
                   codecVars, hookVars, wrapVars, greaseVersions>>

\* Variant of getPinsForHost: the subdomain test without the dot
getPinsForHost_NoDot(host) ==
    SelectSeq(pins, LAMBDA pin :
        \/ pin.Host = ""
        \/ pin.Host = host
        \/ pin.IncludeSubdomains /\ HasSuffix(host, pin.Host))

getPinsForHost(host) ==
    SelectSeq(pins, LAMBDA pin :
        \/ pin.Host = ""
        \/ pin.Host = host
        \/ pin.IncludeSubdomains /\ HasSuffix(host, "." \o pin.Host))

getPinHashes(ps) == [i \in 1..Len(ps) |-> ps[i].Hash]

getCertHashes(certs) == [i \in 1..Len(certs) |-> CalculateSPKIHash(certs[i])]

\* Variant of VerifyResult: only the leaf certificate is compared
VerifyResult_LeafOnly(host, certs) ==
    IF Len(pins) = 0 THEN NilErr
    ELSE IF Len(certs) = 0 THEN Sentinel("no certificates provided")
    ELSE LET applicablePins == getPinsForHost(host) IN
         IF Len(applicablePins) = 0 THEN NilErr
         ELSE IF \E j \in 1..Len(applicablePins) :
                     applicablePins[j].Hash = CalculateSPKIHash(certs[1])
         THEN NilErr
         ELSE CertPinError(host, getPinHashes(applicablePins),
                           getCertHashes(certs))

\* CertPinner.Verify: what it returns
VerifyResult(host, certs) ==
    IF Len(pins) = 0 THEN NilErr
    ELSE IF Len(certs) = 0 THEN Sentinel("no certificates provided")
    ELSE LET applicablePins == getPinsForHost(host) IN
         IF Len(applicablePins) = 0 THEN NilErr
         ELSE IF \E i \in 1..Len(certs), j \in 1..Len(applicablePins) :
                     applicablePins[j].Hash = CalculateSPKIHash(certs[i])
         THEN NilErr
         ELSE CertPinError(host, getPinHashes(applicablePins),
                           getCertHashes(certs))

Verify(host, certs) ==
    /\ verified' = [called |-> TRUE, host |-> host, certs |-> certs,
                    err |-> VerifyResult(host, certs)]
    /\ UNCHANGED <<facadeVars, errVars, poolVars, pskVars, sessionKeys, hdrVars,
                   codecVars, hookVars, wrapVars, greaseVersions, pins>>

Clear ==
    /\ pins # <<>>
    /\ pins' = <<>>
    /\ verified' = NoVerify
    /\ UNCHANGED <<facadeVars, errVars, poolVars, pskVars, sessionKeys, hdrVars,
                   codecVars, hookVars, wrapVars, greaseVersions>>

NextPin ==
    \/ \E hash \in PinStrings, opt \in PinOptions :
            AddPin(hash, opt.Host, opt.IncludeSubdomains)
    \/ \E cert \in Certificates, opt \in PinOptions :
            AddPinFromPEM(cert, opt.Host, opt.IncludeSubdomains)
    \/ \E host \in VerifyHosts, certs \in Chains : Verify(host, certs)
    \/ Clear

SpecPin == InitPin /\ [][NextPin]_vars

-----------------------------------------------------------------------------
(* Decompression of response bodies *)

\* Byte values a body is made of
Bytes == {0, 65, 255}

RECURSIVE SeqsUpTo(_, _)
SeqsUpTo(S, n) ==
    IF n = 0 THEN {<<>>}
    ELSE LET shorter == SeqsUpTo(S, n - 1) IN
         shorter \cup {Append(q, x) : q \in shorter, x \in S}

Bodies == SeqsUpTo(Bytes, MaxBody)

\* Content-Encoding values, in several letter cases
Encodings ==
    {"gzip", "GZIP", "br", "Br", "deflate", "Deflate", "zstd", "ZSTD",
     "", "identity", "unknown", "compress"}

\* The four formats as a writer produces them and a reader takes them back:
\* a format's leading bytes, then the payload, every byte of it changed.  A
\* reader fails on input that does not start with its leading bytes.
Magic(format) ==
    CASE format = "gzip" -> <<31, 139>>
      [] format = "br" -> <<139>>
      [] format = "deflate" -> <<120>>
      [] format = "zstd" -> <<40, 181>>

Formats == {"gzip", "br", "deflate", "zstd"}

\* gzip.NewWriter, brotli.NewWriter, flate.NewWriter, zstd.NewWriter:
\* Write(data), Close(), buf.Bytes()
Compressed(format, data) ==
    Magic(format) \o [i \in 1..Len(data) |-> (data[i] + 1) % 256]

\* io.ReadAll of the format's reader over data
ReadAll(format, data) ==
    LET m == Magic(format) IN
    IF Len(data) >= Len(m) /\ SubSeq(data, 1, Len(m)) = m
    THEN [data |-> [i \in 1..(Len(data) - Len(m)) |->
                       (data[i + Len(m)] + 255) % 256],
          err |-> NilErr, reader |-> format]
    ELSE [data |-> <<>>, err |-> Sentinel(format \o ": invalid header"),
          reader |-> format]

\* What decompress gives back without a reader
Unread(data) == [data |-> data, err |-> NilErr, reader |-> ""]

\* Variant of decompress: an encoding it does not know is an error
decompress_UnknownFails(data, enc) ==
    LET e == ToLower(enc) IN
    CASE e = "gzip" -> ReadAll("gzip", data)
      [] e = "br" -> ReadAll("br", data)
      [] e = "deflate" -> Unread(data)
      [] e \in {"", "identity"} -> Unread(data)
      [] OTHER -> [data |-> <<>>,
                   err |-> Sentinel("unsupported encoding"), reader |-> ""]

\* decompress(data, encoding)
decompress(data, enc) ==
    LET e == ToLower(enc) IN
    CASE e = "gzip" -> ReadAll("gzip", data)
      [] e = "br" -> ReadAll("br", data)
      [] e = "deflate" -> Unread(data)
      [] e \in {"", "identity"} -> Unread(data)
      [] OTHER -> Unread(data)

\* setupStreamDecompressor(body, encoding) and io.ReadAll of its reader;
\* closer: whether it returned a closer
setupStreamDecompressor(data, enc) ==
    LET e == ToLower(enc) IN
    IF e \in Formats
    THEN [read |-> ReadAll(e, data), closer |-> TRUE]
    ELSE [read |-> Unread(data), closer |-> FALSE]

\* The body on the wire: compressed in the format the encoding names, as it
\* is for any other encoding
OnWire(data, enc) ==
    IF ToLower(enc) \in Formats THEN Compressed(ToLower(enc), data) ELSE data

NotDecoded == [done |-> FALSE, data |-> <<>>, err |-> NilErr, reader |-> ""]

NotStreamed ==
    [done |-> FALSE, data |-> <<>>, err |-> NilErr, closer |-> FALSE]

InitCodec ==
    /\ IdleTransport
    /\ LibUnusedBut("codec")
    /\ body \in Bodies
    /\ encoding \in Encodings
    /\ decoded = NotDecoded
    /\ streamed = NotStreamed

\* doHTTPn decompresses the body it has read
Decompresses ==
    /\ ~decoded.done
    /\ LET r == decompress(OnWire(body, encoding), encoding) IN
       decoded' = [done |-> TRUE, data |-> r.data, err |-> r.err,
                   reader |-> r.reader]
    /\ UNCHANGED <<facadeVars, errVars, poolVars, pskVars, sessionKeys, hdrVars,
                   pinVars, hookVars, wrapVars, greaseVersions, body,
                   encoding, streamed>>

\* A streamed response is read through the stream decompressor
StreamDecompresses ==
    /\ ~streamed.done
    /\ LET r == setupStreamDecompressor(OnWire(body, encoding), encoding) IN
       streamed' = [done |-> TRUE, data |-> r.read.data, err |-> r.read.err,
                    closer |-> r.closer]
    /\ UNCHANGED <<facadeVars, errVars, poolVars, pskVars, sessionKeys, hdrVars,
                   pinVars, hookVars, wrapVars, greaseVersions, body,
                   encoding, decoded>>

NextCodec ==
    \/ Decompresses
    \/ StreamDecompresses

SpecCodec == InitCodec /\ [][NextCodec]_vars

-----------------------------------------------------------------------------
(* Request hooks *)

\* A hook function: what tells it from the others, and what it returns
HookFunc(name, err) == [name |-> name, err |-> err]

HookFuncs ==
    {HookFunc("log", NilErr),
     HookFunc("auth", Sentinel("auth: no token")),
     HookFunc("limit", Sentinel("rate limited"))}

\* A nil *Hooks
NilHooks == [nil |-> TRUE, preRequest |-> <<>>, postResponse |-> <<>>]

NewHooks == [nil |-> FALSE, preRequest |-> <<>>, postResponse |-> <<>>]

NoHookRun == [done |-> FALSE, kind |-> "", called |-> <<>>, err |-> NilErr]

InitHooks ==
    /\ IdleTransport
    /\ LibUnusedBut("hooks")
    /\ hooks \in {NilHooks, NewHooks}
    /\ hookRun = NoHookRun

\* Variant of RunEach: every hook is called, and the last error is returned
RECURSIVE RunEach_LastError(_)
RunEach_LastError(hs) ==
    IF hs = <<>> THEN [called |-> <<>>, err |-> NilErr]
    ELSE LET rest == RunEach_LastError(Tail(hs)) IN
         [called |-> <<Head(hs).name>> \o rest.called,
          err |-> IF rest.err # NilErr THEN rest.err ELSE Head(hs).err]

\* for _, hook := range hs { if err := hook(x); err != nil { return err } }:
\* the hooks called, in the order of the calls, and the error returned
RECURSIVE RunEach(_)
RunEach(hs) ==
    IF hs = <<>> THEN [called |-> <<>>, err |-> NilErr]
    ELSE IF Head(hs).err # NilErr
    THEN [called |-> <<Head(hs).name>>, err |-> Head(hs).err]
    ELSE LET rest == RunEach(Tail(hs)) IN
         [called |-> <<Head(hs).name>> \o rest.called, err |-> rest.err]

RunPreRequest(h) ==
    IF h.nil THEN [called |-> <<>>, err |-> NilErr] ELSE RunEach(h.preRequest)

RunPostResponse(h) ==
    IF h.nil THEN [called |-> <<>>, err |-> NilErr] ELSE RunEach(h.postResponse)

\* OnPreRequest on a Hooks value that is not nil
OnPreRequest(hook) ==
    /\ ~hooks.nil
    /\ Len(hooks.preRequest) < MaxHooks
    /\ hooks' = [hooks EXCEPT !.preRequest = Append(@, hook)]
    /\ hookRun' = NoHookRun
    /\ UNCHANGED <<facadeVars, errVars, poolVars, pskVars, sessionKeys, hdrVars,
                   pinVars, codecVars, wrapVars, greaseVersions>>

OnPostResponse(hook) ==
    /\ ~hooks.nil
    /\ Len(hooks.postResponse) < MaxHooks
    /\ hooks' = [hooks EXCEPT !.postResponse = Append(@, hook)]
    /\ hookRun' = NoHookRun
    /\ UNCHANGED <<facadeVars, errVars, poolVars, pskVars, sessionKeys, hdrVars,
                   pinVars, codecVars, wrapVars, greaseVersions>>

HookRun(kind, r) ==
    [done |-> TRUE, kind |-> kind, called |-> r.called, err |-> r.err]

CallsRunPreRequest ==
    /\ hookRun' = HookRun("pre_request", RunPreRequest(hooks))
    /\ UNCHANGED <<facadeVars, errVars, poolVars, pskVars, sessionKeys, hdrVars,
                   pinVars, codecVars, wrapVars, greaseVersions, hooks>>

CallsRunPostResponse ==
    /\ hookRun' = HookRun("post_response", RunPostResponse(hooks))
    /\ UNCHANGED <<facadeVars, errVars, poolVars, pskVars, sessionKeys, hdrVars,
                   pinVars, codecVars, wrapVars, greaseVersions, hooks>>

\* Hooks.Clear
ClearHooks ==
    /\ ~hooks.nil
    /\ hooks.preRequest # <<>> \/ hooks.postResponse # <<>>
    /\ hooks' = NewHooks
    /\ hookRun' = NoHookRun
    /\ UNCHANGED <<facadeVars, errVars, poolVars, pskVars, sessionKeys, hdrVars,
                   pinVars, codecVars, wrapVars, greaseVersions>>

NextHooks ==
    \/ \E hook \in HookFuncs : OnPreRequest(hook)
    \/ \E hook \in HookFuncs : OnPostResponse(hook)
    \/ CallsRunPreRequest
    \/ CallsRunPostResponse
    \/ ClearHooks

SpecHooks == InitHooks /\ [][NextHooks]_vars

-----------------------------------------------------------------------------
(* WrapError, called on what WrapError returned *)

\* The errors handed to the first call: nil, errors that hold no
\* TransportError, a TransportError, and an error that wraps one
WrapCauses ==
    {NilErr}
    \cup {Sentinel(m) : m \in CauseMessages}
    \cup {NewTLSError("tls_handshake", "b.test", "8443", "h3",
                      Sentinel("x509: certificate signed by unknown authority")),
          Errorf("fetch",
                 NewDNSError("b.test", Sentinel("lookup b.test: no such host")))}

WrapOps == {"roundtrip", "dial"}
WrapHosts == {"a.test", "b.test"}
WrapProtocols == {"h1", "h2"}

InitWrap ==
    /\ IdleTransport
    /\ LibUnusedBut("wrap")
    /\ wrapOf \in WrapCauses
    /\ wrapped = <<>>

\* WrapError is called on the error the call before it returned
WrapsError(op, host, port, proto) ==
    /\ Len(wrapped) < MaxWraps
    /\ LET cause == IF wrapped = <<>> THEN wrapOf
                    ELSE wrapped[Len(wrapped)].err
       IN wrapped' = Append(wrapped,
                            [op |-> op, host |-> host, port |-> port,
                             proto |-> proto,
                             err |-> WrapError(op, host, port, proto, cause)])
    /\ UNCHANGED <<facadeVars, errVars, poolVars, pskVars, sessionKeys, hdrVars,
                   pinVars, codecVars, hookVars, greaseVersions, wrapOf>>

NextWrap ==
    \E op \in WrapOps, host \in WrapHosts, proto \in WrapProtocols :
        WrapsError(op, host, "443", proto)

SpecWrap == InitWrap /\ [][NextWrap]_vars

-----------------------------------------------------------------------------
(* GREASE versions of the QUIC version_information parameter *)

\* A uint32 is written as its eight hexadecimal digits, the highest first
Uint32(digits) == digits

\* uint32(b) of a byte below 16
Uint32OfNibble(b) == Uint32(<<0, 0, 0, 0, 0, 0, 0, b>>)

\* x << (4 * k) on a uint32: the digits that leave the 32 bits are lost
ShiftLeftDigits(x, k) ==
    [i \in 1..8 |-> IF i + k <= 8 THEN x[i + k] ELSE 0]

\* a | b on hexadecimal digits
RECURSIVE OrDigit(_, _)
OrDigit(a, b) ==
    IF a = 0 THEN b
    ELSE IF b = 0 THEN a
    ELSE (IF a % 2 = 1 \/ b % 2 = 1 THEN 1 ELSE 0)
         + 2 * OrDigit(a \div 2, b \div 2)

\* a | b on uint32 values
Or32(a, b) == [i \in 1..8 |-> OrDigit(a[i], b[i])]

\* Variant of generateGREASEVersion: the third shift by 16 bits, not 20
generateGREASEVersion_Shift16(nibble) ==
    LET n == Uint32OfNibble(nibble) IN
    Or32(Or32(Or32(Or32(Or32(Or32(Or32(
        ShiftLeftDigits(n, 7), <<0, 10, 0, 0, 0, 0, 0, 0>>),
        ShiftLeftDigits(n, 4)), <<0, 0, 0, 10, 0, 0, 0, 0>>),
        ShiftLeftDigits(n, 3)), <<0, 0, 0, 0, 0, 10, 0, 0>>),
        ShiftLeftDigits(n, 1)), <<0, 0, 0, 0, 0, 0, 0, 10>>)

\* uint32(nibble)<<28 | 0x0a000000 | uint32(nibble)<<20 | 0x000a0000 |
\* uint32(nibble)<<12 | 0x00000a00 | uint32(nibble)<<4 | 0x0000000a
generateGREASEVersion(nibble) ==
    LET n == Uint32OfNibble(nibble) IN
    Or32(Or32(Or32(Or32(Or32(Or32(Or32(
        ShiftLeftDigits(n, 7), <<0, 10, 0, 0, 0, 0, 0, 0>>),
        ShiftLeftDigits(n, 5)), <<0, 0, 0, 10, 0, 0, 0, 0>>),
        ShiftLeftDigits(n, 3)), <<0, 0, 0, 0, 0, 10, 0, 0>>),
        ShiftLeftDigits(n, 1)), <<0, 0, 0, 0, 0, 0, 0, 10>>)

\* rand.Intn(16)
Nibbles == 0..15

InitGrease ==
    /\ IdleTransport
    /\ LibUnusedBut("grease")
    /\ greaseVersions = <<>>

\* One call of generateGREASEVersion, with the nibble rand.Intn gave
GeneratesGREASE(nibble) ==
    /\ Len(greaseVersions) < MaxGrease
    /\ greaseVersions' =
          Append(greaseVersions,
                 [nibble |-> nibble, version |-> generateGREASEVersion(nibble)])
    /\ UNCHANGED <<facadeVars, errVars, poolVars, pskVars, sessionKeys, hdrVars,
                   pinVars, codecVars, hookVars, wrapVars>>

NextGrease == \E nibble \in Nibbles : GeneratesGREASE(nibble)

SpecGrease == InitGrease /\ [][NextGrease]_vars

-----------------------------------------------------------------------------
(* Properties *)

Started(g) == tasks[g].pc # "idle"
Https(g) == tasks[g].req.scheme = "https"
Returned(g) == tasks[g].pc = "done"
Succeeded(g) == Returned(g) /\ tasks[g].err = NilErr
LastCall(g) == tasks[g].calls[Len(tasks[g].calls)]
\* The request is handled by doAuto
InAuto(g) == tasks[g].path \in {"known", "unknown"}
\* The doHTTP2 call of the request failed with an error of category Protocol
H2ProtocolClass(tk) == tk.h2err.kind = "te" /\ tk.h2err.Category = ErrProtocol
\* Goroutine g's Do call starts in this step
Calls(g) == tasks[g].pc # "inflight" /\ tasks'[g].pc = "inflight"
\* Goroutine g's Do call returns in this step
Returns(g) == tasks[g].pc = "inflight" /\ tasks'[g].pc = "done"

\* C1: a request with scheme http is dispatched to doHTTP1 and to nothing
\* else, whatever protocol is forced, whatever the cache holds and with or
\* without a proxy; a successful response carries the tag h1.
C1_PlaintextOnlyH1 ==
    \A g \in Goroutines :
        (Started(g) /\ tasks[g].req.scheme = "http") =>
            /\ tasks[g].calls = <<ProtocolHTTP1>>
            /\ Succeeded(g) => tasks[g].resp.Protocol = "h1"

\* An http request answered over h1 on a Transport with a proxy configured
\* and HTTP/3 forced
C1_Witness ==
    \E g \in Goroutines :
        /\ Succeeded(g)
        /\ tasks[g].req.scheme = "http"
        /\ tasks[g].resp.Protocol = "h1"
        /\ tasks[g].seen.proxied
        /\ protocol = ProtocolHTTP3

\* C2: with the protocol forced to h1, h2 or h3 and an https URL, Do calls the
\* corresponding doHTTPn, and that call's return ends Do (no other transport
\* is tried), also when a proxy is configured.
C2_ForcedOnlyThatTransport ==
    [][\A g \in Goroutines :
         /\ (Calls(g) /\ tasks'[g].req.scheme = "https"
                /\ protocol \in {ProtocolHTTP1, ProtocolHTTP2, ProtocolHTTP3})
              => tasks'[g].calls = <<protocol>>
         /\ (tasks[g].pc = "inflight" /\ tasks[g].path = "forced"
                /\ tasks'[g] # tasks[g])
              => (Returns(g) /\ Len(tasks'[g].calls) = 1)
      ]_vars

C5_CacheDecidesFirstTransport ==
    \A g \in Goroutines :
        (Started(g) /\ InAuto(g) /\ Https(g)) =>
            /\ tasks[g].known = ProtocolHTTP3 => tasks[g].calls[1] = ProtocolHTTP3
            /\ tasks[g].known = ProtocolHTTP1 => tasks[g].calls = <<ProtocolHTTP1>>
            /\ tasks[g].seen.learnedH1 => tasks[g].calls = <<ProtocolHTTP1>>

\* C6 as claimed: in auto mode with h2 recorded, H1 is tried only after an H2
\* failure of category Protocol, and any other H2 error is what Do returns.
C6_KnownH2FallbackOnlyOnProtocolError ==
    \A g \in Goroutines :
        (Started(g) /\ tasks[g].path = "known"
            /\ tasks[g].known = ProtocolHTTP2) =>
            /\ Len(tasks[g].calls) = 2 => H2ProtocolClass(tasks[g])
            /\ (Returned(g) /\ tasks[g].h2err # NilErr
                    /\ ~H2ProtocolClass(tasks[g]))
                 => tasks[g].err = tasks[g].h2err

\* C6 amended: in auto mode with h2 recorded, every failure of the H2 attempt,
\* of whatever category, is followed by an H1 attempt, and what Do returns is
\* then the result of the H1 attempt; an H2 error is never returned.
C6_KnownH2FallbackOnAnyError ==
    \A g \in Goroutines :
        (Started(g) /\ tasks[g].path = "known"
            /\ tasks[g].known = ProtocolHTTP2) =>
            /\ tasks[g].calls[1] = ProtocolHTTP2
            /\ tasks[g].h2err # NilErr =>
                  tasks[g].calls = <<ProtocolHTTP2, ProtocolHTTP1>>
            /\ Returned(g) =>
                  IF tasks[g].err = NilErr
                  THEN tasks[g].resp.Protocol = LastCall(g)
                  ELSE LastCall(g) = ProtocolHTTP1 /\ tasks[g].err.Protocol = "h1"

\* With h2 recorded, an H2 timeout was followed by an H1 attempt that answered
C6_Witness ==
    \E g \in Goroutines :
        /\ Succeeded(g) /\ tasks[g].path = "known"
        /\ tasks[g].known = ProtocolHTTP2
        /\ tasks[g].h2err.kind = "te" /\ tasks[g].h2err.Category = ErrTimeout
        /\ tasks[g].calls = <<ProtocolHTTP2, ProtocolHTTP1>>
        /\ tasks[g].resp.Protocol = "h1"

\* C7: in auto mode, when Do returns after an H2 attempt that failed with an
\* error of category Protocol, the cache records h1 for the host, whether the
\* host was unknown or recorded as h2.
C7_ProtocolFailureRecordsH1 ==
    [][\A g \in Goroutines :
         (Returns(g) /\ InAuto(g) /\ H2ProtocolClass(tasks'[g]))
           => protocolSupport'[extractHost(tasks[g].req)] = ProtocolHTTP1
      ]_vars

\* C8: when an auto-mode Do returns a response, the cache records for the
\* host the protocol tag of that response, fallback included.
C8_SupportEqualsResponseTag ==
    [][\A g \in Goroutines :
         (Returns(g) /\ InAuto(g) /\ Https(g) /\ tasks'[g].err = NilErr)
           => protocolSupport'[extractHost(tasks[g].req)]
                 = tasks'[g].resp.Protocol
      ]_vars

\* C9: once the cache records h1 for a host, only ClearProtocolCache changes
\* the entry.
C9_H1IsMonotonic ==
    [][\A h \in Hosts :
         (protocolSupport[h] = ProtocolHTTP1
            /\ protocolSupport'[h] # ProtocolHTTP1) => ClearProtocolCache
      ]_vars

\* C10: for an unknown host and an H3-capable preset in auto mode the H2
\* attempt does not wait for the H3 attempt to finish: no H2 call is made
\* behind an H3 call that has already returned.
C10_H2DoesNotWaitForH3 ==
    \A g \in Goroutines :
        (Started(g) /\ tasks[g].path = "unknown"
            /\ tasks[g].calls[1] = ProtocolHTTP3) =>
            ~(Len(tasks[g].calls) >= 2 /\ tasks[g].calls[2] = ProtocolHTTP2)

\* C11: a cache entry becomes h3 or h2 only in the step in which a Do call for
\* that host returns a response of that protocol; never when an attempt
\* starts, and never when an attempt fails at the round trip, while reading
\* the body or while decompressing it.
C11_CommitOnlyAfterResponse ==
    [][\A h \in Hosts :
         (protocolSupport'[h] \in {ProtocolHTTP2, ProtocolHTTP3}
            /\ protocolSupport'[h] # protocolSupport[h])
           => \E g \in Goroutines :
                 /\ Returns(g) /\ tasks'[g].err = NilErr
                 /\ extractHost(tasks[g].req) = h
                 /\ tasks'[g].resp.Protocol = protocolSupport'[h]
      ]_vars

\* An H3 attempt failed, the H2 attempt then answered, and
\* the host is recorded as h2
C11_Witness ==
    \E g \in Goroutines :
        /\ Succeeded(g) /\ tasks[g].path = "unknown"
        /\ tasks[g].calls = <<ProtocolHTTP3, ProtocolHTTP2>>
        /\ tasks[g].resp.Protocol = "h2"
        /\ protocolSupport[extractHost(tasks[g].req)] = ProtocolHTTP2

\* C12: in auto mode, when the H3 attempt of an https request has failed, an
\* H2 attempt is made for the same request, whether the host was unknown or
\* recorded as h3: no call returns with a failed H3 attempt as its only one.
C12_H3FailureIsFollowedByH2 ==
    \A g \in Goroutines :
        (Returned(g) /\ InAuto(g) /\ Https(g)
            /\ tasks[g].calls[1] = ProtocolHTTP3
            /\ (Len(tasks[g].calls) > 1 \/ tasks[g].err # NilErr)) =>
            /\ Len(tasks[g].calls) >= 2
            /\ tasks[g].calls[2] = ProtocolHTTP2

\* C13: the timeout of a request (its Timeout if > 0, else the transport's)
\* bounds the whole Do call: the time spent over all its doHTTPn calls never
\* exceeds it.
C13_TimeoutBoundsWholeCall ==
    \A g \in Goroutines :
        Started(g) => timers[g].total <= timers[g].limit

\* C14: after any sequence of SetInsecureSkipVerify, SetProxy and SetPreset
\* calls, the skip-verification flag of each of the three transports equals
\* the value last passed to SetInsecureSkipVerify.
C14_SkipVerifyOnAllTransports ==
    /\ h1Transport.insecureSkipVerify = insecureSkipVerify
    /\ h2Transport.insecureSkipVerify = insecureSkipVerify
    /\ h3Transport.insecureSkipVerify = insecureSkipVerify

\* C15: SetPreset clears the support cache: right after a SetPreset call every
\* host is unknown.
C15_SetPresetClearsCache ==
    [][(\E name \in PresetNames : SetPreset(name))
         => \A h \in Hosts : protocolSupport'[h] = Unknown
      ]_vars

\* C16: every SetProxy call re-creates the HTTP/1.1 and HTTP/2 transports and
\* leaves the HTTP/3 transport instance, the preset, the timeout, the forced
\* protocol and the support cache as they were.
C16_SetProxyKeepsH3 ==
    [][(\E px \in ProxyConfigs : SetProxy(px))
         => /\ h1Transport'.gen = h1Transport.gen + 1
            /\ h2Transport'.gen = h2Transport.gen + 1
            /\ h1Transport'.proxy = proxy' /\ h2Transport'.proxy = proxy'
            /\ h3Transport' = h3Transport
            /\ preset' = preset /\ timeout' = timeout
            /\ protocol' = protocol /\ protocolSupport' = protocolSupport
      ]_vars

\* SetProxy has replaced the HTTP/1.1 and HTTP/2 transports of a Transport
\* that has a learned protocol and a timeout other than the default, and the
\* HTTP/3 transport is the one created by the constructor
C16_Witness ==
    /\ ProxyConfigured
    /\ h1Transport.gen = 1 /\ h2Transport.gen = 1 /\ h3Transport.gen = 0
    /\ h1Transport.proxy = proxy
    /\ timeout # DefaultTimeout
    /\ \E h \in Hosts : protocolSupport[h] # Unknown

\* C17: a Do call running concurrently with SetProxy or SetPreset never
\* issues a round trip on a transport instance that has already been closed.
C17_NoRoundTripOnClosedTransport ==
    \A g \in Goroutines : ~issued[g].onClosed

\* C18: a successful H2 or H3 response served on a connection that the
\* request did not form itself reports dns_lookup, tcp_connect and
\* tls_handshake as 0; they are non-zero only for a request that formed a new
\* connection, whatever other requests dial or drop concurrently.
C18_ReusedConnectionHasZeroTimings ==
    \A g \in Goroutines :
        probe[g].pc = "done" =>
            /\ (probe[g].existed /\ ~probe[g].formed)
                  => probe[g].timing = NoTiming
            /\ probe[g].timing # NoTiming => probe[g].formed

\* C19: the support cache is indexed by scheme, host and port: an auto-mode
\* https request finds a protocol recorded for it only if a request with
\* the same scheme, host and port has been made, so what one host:port taught
\* does not decide the protocol for the same hostname on another port.
C19_CacheIndexedByHostKey ==
    \A g \in Goroutines :
        (Started(g) /\ Https(g) /\ tasks[g].path = "known") =>
            \E g2 \in Goroutines \ {g} :
                Started(g2) /\ tasks[g2].req = tasks[g].req

\* C20: every non-nil error that Do returns, on every path, is a
\* TransportError with a category.
C20_ErrorsAreCategorized ==
    \A g \in Goroutines :
        (Returned(g) /\ tasks[g].err # NilErr) =>
            /\ tasks[g].err.kind = "te"
            /\ tasks[g].err.Category \in Categories

\* Do calls have returned an error from the URL parse and an error from a round
\* trip whose cause matches none of the category patterns
C20_Witness ==
    \E g, g2 \in Goroutines :
        /\ Returned(g) /\ tasks[g].err # NilErr
        /\ tasks[g].err.Op = "parse_url" /\ tasks[g].err.Category = ErrRequest
        /\ Returned(g2) /\ tasks[g2].err # NilErr
        /\ tasks[g2].err.Op = "roundtrip"
        /\ tasks[g2].err.Cause = ErrUnexpectedEOF
        /\ tasks[g2].err.Category = ErrConnection

\* C21: every TransportError the package builds has the retryability of its
\* class: category Timeout implies retryable, category DNS implies retryable,
\* category TLS implies not retryable.
C21_RetryabilityFollowsClass ==
    built.kind = "te" =>
        /\ (built.Category = ErrTimeout => built.Retryable)
        /\ (built.Category = ErrDNS => built.Retryable)
        /\ (built.Category = ErrTLS => ~built.Retryable)

\* C22: WrapError gives category Protocol to every error that is not a
\* timeout, not a DNS error, and whose message names alpn, http2 or protocol.
C22_NamedProtocolIsProtocol ==
    [][(/\ CallWrapError
        /\ ~IsNetTimeout(given)
        /\ ~IsDNSErrorType(given)
        /\ LET errStr == ToLower(given.msg) IN
               Contains(errStr, "alpn") \/ Contains(errStr, "http2")
               \/ Contains(errStr, "protocol"))
       => built'.Category = ErrProtocol]_vars

\* C23: with the protocol forced to h3, no proxy and a preset that does not
\* support HTTP/3, Do on an https URL returns an error of category Protocol
\* without calling the HTTP/3 transport.
C23_ForcedH3NeedsPresetSupport ==
    [][\A g \in Goroutines :
         (/\ Calls(g)
          /\ tasks'[g].req.scheme = "https"
          /\ protocol = ProtocolHTTP3
          /\ ~ProxyConfigured
          /\ ~preset.SupportHTTP3)
         => /\ tasks'[g].pc = "done"
            /\ tasks'[g].calls = <<>>
            /\ tasks'[g].err.kind = "te"
            /\ tasks'[g].err.Category = ErrProtocol
      ]_vars

\* C24: for acquire calls on one (HostKey, protocol) that find no usable
\* connection, at most one dial is in progress at a time and the other callers
\* wait for it; when the dial ends every caller awaiting it returns its
\* outcome, the same stored connection on success and the dial's error as it
\* is on failure, and a failed dial stores no connection.
C24_DialsCoalesce ==
    [][\A k \in PoolKeys :
         /\ Cardinality({c \in Acquirers : acquirers'[c].key = k
                            /\ acquirers'[c].pc = "dialing"}) <= 1
         /\ \A c \in Acquirers :
               (acquirers'[c].key = k /\ acquirers'[c].pc = "waiting")
                  => \E d \in Acquirers : /\ acquirers'[d].key = k
                                          /\ acquirers'[d].pc = "dialing"
         /\ DialSucceeds(k) =>
               \E x \in slots'[k].conns :
                  /\ x.usable /\ x \notin slots[k].conns
                  /\ \A c \in Awaiting(k) :
                        /\ acquirers'[c].pc = "done"
                        /\ acquirers'[c].got = GotConnection(x.id)
         /\ \A e \in DialErrors :
               DialFails(k, e) =>
                  /\ slots'[k].conns = slots[k].conns
                  /\ \A c \in Awaiting(k) :
                        /\ acquirers'[c].pc = "done"
                        /\ acquirers'[c].got = GotError(e)
      ]_vars

\* Two callers on one key, one of which waited for the other's dial, have
\* returned the same dial error, and the slot holds no connection
C24_Witness ==
    \E c, d \in Acquirers :
        /\ c # d
        /\ acquirers[c].pc = "done" /\ acquirers[d].pc = "done"
        /\ acquirers[c].key = acquirers[d].key
        /\ acquirers[d].waited /\ ~acquirers[c].waited
        /\ acquirers[c].got = acquirers[d].got
        /\ acquirers[c].got.err \in DialErrors
        /\ slots[acquirers[c].key].conns = {}

\* C25: a dial uses the PSK ClientHello variant only if there is a PSK variant
\* and a session for the host is cached and not older than the TTL; the first
\* connection to a host with nothing cached, and one whose cached session has
\* expired, use the non-PSK variant.
C25_PSKOnlyWithLiveSession ==
    /\ dialed.spec = ClientHelloSpecPSK =>
          /\ dialed.hasPSK
          /\ dialed.entry.cached
          /\ dialed.at - dialed.entry.CreatedAt <= SessionTTL
    /\ dialed.host # "" => dialed.spec \in {ClientHelloSpec, ClientHelloSpecPSK}
    /\ resumptionTest.pc # "start" => resumptionTest.first = ClientHelloSpec
    /\ resumptionTest.second = ClientHelloSpecPSK => resumptionTest.session

\* A dial made with the PSK variant, and later one to the same host made with
\* the non-PSK variant because the cached session had expired
C25_Witness ==
    /\ dialed.spec = ClientHelloSpec
    /\ dialed.hasPSK
    /\ dialed.entry.cached
    /\ dialed.at - dialed.entry.CreatedAt > SessionTTL

\* C26: the session-cache key is injective in (preset, protocol, host, port):
\* two different tuples never have the same key.
C26_SessionKeyIsInjective ==
    \A a, b \in sessionKeys :
        a.key = b.key =>
            /\ a.preset = b.preset /\ a.protocol = b.protocol
            /\ a.host = b.host /\ a.port = b.port

\* Keys formatted for one host, port and protocol under two presets
C26_Witness ==
    \E a, b \in sessionKeys :
        /\ a.preset # b.preset /\ a.protocol = b.protocol
        /\ a.host = b.host /\ a.port = b.port
        /\ a.key # b.key
        /\ a.key = "httpcloak:sessions:chrome-145:h2:a.test:443"

\* C27: in TLS-only mode the headers of the request that is sent are exactly
\* the caller's: no preset sec-ch-ua*, no preset Accept*, no preset User-Agent.
C27_TLSOnlyAddsNoPresetHeader ==
    (tlsOnly /\ wire.sent) =>
        /\ DOMAIN wire.header =
              {CanonicalMIMEHeaderKey(k) : k \in DOMAIN reqHeaders}
        /\ \A k \in DOMAIN reqHeaders :
              HeaderGet(wire.header, k) = reqHeaders[k]

\* Some certificate of the chain has the SPKI hash of a pin that applies
Pinned(host, certs) ==
    \E i \in 1..Len(certs), j \in 1..Len(getPinsForHost(host)) :
        CalculateSPKIHash(certs[i]) = getPinsForHost(host)[j].Hash

\* This step is the call Verify(host, certs)
Verifies(host, certs) ==
    /\ verified'.called
    /\ verified'.host = host
    /\ verified'.certs = certs
    /\ Verify(host, certs)

C29_DecompressInvertsCompress ==
    ToLower(encoding) \in Formats =>
        /\ decoded.done => (decoded.err = NilErr /\ decoded.data = body)
        /\ streamed.done => (streamed.err = NilErr /\ streamed.data = body)

\* C30: for an unknown, an empty and the identity encoding the body comes back
\* unchanged, without an error and without a reader or closer being created.
C30_UnknownEncodingPassesThrough ==
    ToLower(encoding) \notin Formats =>
        /\ decoded.done =>
              /\ decoded.data = body
              /\ decoded.err = NilErr
              /\ decoded.reader = ""
        /\ streamed.done =>
              /\ streamed.data = body
              /\ streamed.err = NilErr
              /\ ~streamed.closer

\* A body of two bytes with an encoding nobody knows, returned as it is by
\* both decompress and the stream decompressor
C30_Witness ==
    /\ encoding = "unknown"
    /\ Len(body) = 2
    /\ decoded.done /\ decoded.data = body
    /\ streamed.done /\ streamed.data = body


\* Goroutine g's doHTTP2 call, made by doAuto for a host it read as unknown,
\* fails in this step
H2FailsForUnknownHost(g) ==
    /\ tasks[g].pc = "inflight"
    /\ tasks[g].path = "unknown"
    /\ Cur(tasks[g]) = ProtocolHTTP2
    /\ tasks'[g] # tasks[g]
    /\ tasks'[g].h2err # NilErr

\* C31: when doAuto's H2 attempt for an unknown host fails, h1 is recorded for
\* the host exactly when the error the attempt returned has category Protocol.
C31_H1RecordedIffCategoryProtocol ==
    [][\A g \in Goroutines :
         (H2FailsForUnknownHost(g)
            /\ protocolSupport[extractHost(tasks[g].req)] = Unknown)
           => ((protocolSupport'[extractHost(tasks[g].req)] = ProtocolHTTP1)
                 <=> H2ProtocolClass(tasks'[g]))
      ]_vars


\* C32: a Do call in auto mode for an unknown host, made while no other call
\* is under way, that fails on every protocol returns the error of its HTTP/1.1
\* attempt, and leaves the host unknown in the cache unless its H2 attempt
\* failed with an error of category Protocol, when the cache records h1.
C32_AllFailKeepsCacheUnknownOrH1 ==
    [][\A g \in Goroutines :
         (/\ Returns(g)
          /\ tasks[g].path = "unknown"
          /\ tasks'[g].err # NilErr
          /\ \A h \in Goroutines \ {g} : tasks[h].pc = "idle")
           => /\ LastCall(g) = ProtocolHTTP1
              /\ tasks'[g].err.Protocol = "h1"
              /\ protocolSupport'[extractHost(tasks[g].req)] =
                    IF H2ProtocolClass(tasks'[g])
                    THEN ProtocolHTTP1 ELSE Unknown
      ]_vars


\* The values the request gives for a header name, whatever the letter case
\* of its keys
RequestValues(name) ==
    {reqHeaders[k] : k \in {x \in DOMAIN reqHeaders :
                              CanonicalMIMEHeaderKey(x) =
                              CanonicalMIMEHeaderKey(name)}}

\* The header set w is the preset's overlaid by the request's
Overlaid(w) ==
    /\ DOMAIN w =
          {CanonicalMIMEHeaderKey(k) : k \in DOMAIN PresetHeaders}
          \cup {"User-Agent"}
          \cup {CanonicalMIMEHeaderKey(k) : k \in DOMAIN reqHeaders}
    /\ \A k \in DOMAIN reqHeaders : HeaderGet(w, k) \in RequestValues(k)
    /\ RequestValues("User-Agent") = {}
          => HeaderGet(w, "User-Agent") = PresetUserAgent
    /\ \A k \in DOMAIN PresetHeaders :
          RequestValues(k) = {} => HeaderGet(w, k) = PresetHeaders[k]

C34_SameRequestSameHeaders ==
    (wire.sent /\ rerun.sent) =>
        \A k \in DOMAIN reqHeaders :
            HeaderGet(wire.header, k) = HeaderGet(rerun.header, k)


\* C35: no step of a Do call for a URL whose scheme is neither http nor https
\* changes the protocol support cache.
C35_OtherSchemeLeavesCache ==
    [][\A g \in Goroutines :
         (/\ tasks[g].pc = "inflight"
          /\ tasks[g].req.scheme \notin {"http", "https"}
          /\ tasks'[g] # tasks[g])
           => protocolSupport' = protocolSupport
      ]_vars


\* C36: RunPreRequest and RunPostResponse call the hooks in the order they
\* were registered, up to and including the first that returns an error, and
\* return that error; with no failing hook, no hook or a nil Hooks they call
\* whatever is registered and return nil.
C36_HooksRunInOrderUntilError ==
    hookRun.done =>
        LET hs == IF hookRun.kind = "pre_request"
                  THEN hooks.preRequest ELSE hooks.postResponse
            failing == {i \in 1..Len(hs) : hs[i].err # NilErr}
        IN IF hooks.nil \/ failing = {}
           THEN /\ hookRun.err = NilErr
                /\ hookRun.called = [i \in 1..Len(hs) |-> hs[i].name]
           ELSE LET first == CHOOSE i \in failing : \A j \in failing : i <= j
                IN /\ hookRun.err = hs[first].err
                   /\ hookRun.called = [i \in 1..first |-> hs[i].name]

\* Three pre-request hooks, the second and the third failing: the first two
\* were called and the second one's error was returned
C36_Witness ==
    /\ hookRun.done
    /\ hookRun.kind = "pre_request"
    /\ Len(hooks.preRequest) = 3
    /\ hooks.preRequest[1].name = "log"
    /\ hooks.preRequest[2].name = "auth"
    /\ hooks.preRequest[3].name = "limit"
    /\ hookRun.called = <<"log", "auth">>
    /\ hookRun.err = Sentinel("auth: no token")

\* parent is what follows one of the dots of host
IsSubdomainOf(host, parent) ==
    \E i \in 1..Len(host) :
        SubSeq(host, i, i) = "." /\ SubSeq(host, i + 1, Len(host)) = parent

\* The scope of a pin, as its options state it
AppliesTo(pin, host) ==
    \/ pin.Host = ""
    \/ pin.Host = host
    \/ pin.IncludeSubdomains /\ IsSubdomainOf(host, pin.Host)

\* The pins whose scope holds the host, in the order they were added
PinsInScope(host) == SelectSeq(pins, LAMBDA pin : AppliesTo(pin, host))

\* C37: Verify judges a chain by the pins in whose scope the host is, and by
\* no other: a pin for host h applies to h, with IncludeSubdomains also to the
\* hosts below h at any depth, never to a host whose name only ends with h,
\* and a pin without a host applies to every host.
C37_PinsApplyWithinScope ==
    (verified.called /\ Len(verified.certs) > 0) =>
        LET inScope == PinsInScope(verified.host) IN
        IF \E i \in 1..Len(verified.certs), j \in 1..Len(inScope) :
               CalculateSPKIHash(verified.certs[i]) = inScope[j].Hash
        THEN verified.err = NilErr
        ELSE IF inScope = <<>> THEN verified.err = NilErr
        ELSE /\ verified.err.kind = "CertPinError"
             /\ verified.err.ExpectedHashes = getPinHashes(inScope)

\* Two pins for a.test, the first with IncludeSubdomains: a chain for
\* x.www.a.test that matches neither is rejected on account of the first alone
C37_Witness ==
    /\ verified.called
    /\ verified.host = "x.www.a.test"
    /\ verified.certs = <<"leaf">>
    /\ Len(pins) = 2
    /\ pins[1].Host = "a.test" /\ pins[1].IncludeSubdomains
    /\ pins[2].Host = "a.test" /\ ~pins[2].IncludeSubdomains
    /\ verified.err.kind = "CertPinError"
    /\ verified.err.ExpectedHashes = <<pins[1].Hash>>

\* C38: for a host to which no pin applies Verify returns nil, whatever the
\* chain, the empty one included, and whatever is pinned for other hosts.
C38_UnpinnedHostIsAccepted ==
    (verified.called /\ getPinsForHost(verified.host) = <<>>)
        => verified.err = NilErr


\* C39: WrapError of nil is nil, and WrapError of an error that is or wraps a
\* TransportError is that error: whatever the arguments of the later calls,
\* a row of WrapError calls returns what its first call returned.
C39_WrapErrorIsIdempotent ==
    /\ wrapOf = NilErr => \A i \in 1..Len(wrapped) : wrapped[i].err = NilErr
    /\ (AsTransportError(wrapOf) /\ Len(wrapped) > 0)
          => wrapped[1].err = wrapOf
    /\ \A i \in 2..Len(wrapped) : wrapped[i].err = wrapped[1].err

\* An error that holds no TransportError, wrapped for a round trip to a.test
\* over h2, then for a dial to b.test over h1: the second call returned the
\* TransportError of the first
C39_Witness ==
    /\ wrapOf = Sentinel("read tcp: connection reset by peer")
    /\ Len(wrapped) = 2
    /\ wrapped[1].op = "roundtrip" /\ wrapped[1].host = "a.test"
    /\ wrapped[1].proto = "h2"
    /\ wrapped[2].op = "dial" /\ wrapped[2].host = "b.test"
    /\ wrapped[2].proto = "h1"
    /\ wrapped[2].err.Op = "roundtrip" /\ wrapped[2].err.Host = "a.test"
    /\ wrapped[2].err.Protocol = "h2"
    /\ wrapped[2].err.Category = ErrConnection
    /\ wrapped[2].err.Retryable

\* C40: for every nibble n the version generated is a 32-bit value whose
\* four bytes are each (n << 4) | 0x0a.
C40_GREASEVersionRepeatsNibble ==
    \A k \in 1..Len(greaseVersions) :
        LET n == greaseVersions[k].nibble
            v == greaseVersions[k].version
        IN /\ Len(v) = 8
           /\ \A i \in 1..4 :
                 16 * v[2 * i - 1] + v[2 * i] = 16 * n + 10

\* The versions 0xfafafafa and 0x0a0a0a0a, generated one after the other
C40_Witness ==
    /\ Len(greaseVersions) = 2
    /\ greaseVersions[1].nibble = 15
    /\ greaseVersions[1].version = <<15, 10, 15, 10, 15, 10, 15, 10>>
    /\ greaseVersions[2].nibble = 0
    /\ greaseVersions[2].version = <<0, 10, 0, 10, 0, 10, 0, 10>>

====
